---- MODULE Spec2Model ----
(***************************************************************************)
(* Vendor advisory tracker: the six per-vendor extractors (scrape_cisco,   *)
(* scrape_intel, scrape_nvidia, scrape_dell, scrape_adobe,                 *)
(* scrape_palo_alto), the NVD enrichment client (fetch_nvd_data) and the   *)
(* dashboard's scan logic (normalisation, severity filter, session store). *)
(*                                                                         *)
(* One extractor run is a sequence of steps: Launch, UserAgentOverride,    *)
(* AwaitReady, Harvest, HarvestRow*, FinishHarvest, Handler, Cleanup.      *)
(* Exceptions are values of `pending'; each step either moves on or puts   *)
(* an exception in flight, which the vendor's except clause may catch.     *)
(***************************************************************************)
EXTENDS Integers, Sequences, FiniteSets, TLC

(* ------------------------------ bounds --------------------------------- *)
MaxRows == 2          \* row nodes on a rendered page
MaxTable == 11        \* rows of the largest table put to a query function

(* ------------------------- program constants --------------------------- *)
max_attempts == 3     \* scrape_nvidia harvest attempts
max_load_attempts == 5  \* scrape_palo_alto 'Load More' clicks
RowCap == 100         \* rows[:100] in scrape_intel / scrape_dell

NA == "N/A"
NaN == "<NaN>"        \* pandas missing value (float nan / None) in a cell
NaT == "<NaT>"        \* pandas missing timestamp in a datetime column

Vendors == {"NVIDIA", "Cisco", "Intel", "Adobe", "Dell", "Palo Alto Networks"}

(* ----------------------------- exceptions ------------------------------ *)
\* Exception classes that can be in flight.  TimeoutException,
\* NoSuchElementException and StaleElementReferenceException are
\* subclasses of WebDriverException; OSError and KeyError are not.
NoExc == "none"
ExcClasses == {"Timeout", "WebDriver", "NoSuchElement", "Stale", "OSError", "KeyError", "Exception"}
IsWebDriverException(e) == e \in {"Timeout", "WebDriver", "NoSuchElement", "Stale"}

(* ------------------------- per-vendor structure ------------------------ *)
\* scrape_cisco, scrape_intel and scrape_nvidia obtain the session from
\* setup_driver (with a temporary profile directory); the other three
\* call webdriver.Chrome directly.
UsesSetupDriver(v) == v \in {"Cisco", "Intel", "NVIDIA"}

\* execute_cdp_cmd("Network.setUserAgentOverride") before the try block.
HasUserAgentOverride(v) == v \in {"Cisco", "Intel"}

\* Only scrape_palo_alto constructs the browser inside its try block.
LaunchInsideTry(v) == v = "Palo Alto Networks"

\* The exception classes the extractor's outer except clause catches.
Caught(v, e) ==
  IF v \in {"Cisco", "Intel", "NVIDIA"} THEN IsWebDriverException(e) ELSE TRUE

\* The outer except clause writes <vendor>_error.html (driver.page_source).
HandlerWritesDiagnostic(v) == v \in {"Cisco", "Intel", "Dell"}

\* The AwaitReady signal is the presence of a repeated row itself.
WaitsForRows(v) == v \in {"Cisco", "Palo Alto Networks"}

(* -------------------------------- texts -------------------------------- *)
\* The characters of a text, for the texts the questions, the phrases of
\* the rules and the cells hold; any other text has none.
Chars(s) ==
  CASE s = " severity" -> <<" ", "s", "e", "v", "e", "r", "i", "t", "y">>
    [] s = " vulnerabilities" -> <<" ", "v", "u", "l", "n", "e", "r", "a", "b", "i", "l", "i", "t", "i", "e", "s">>
    [] s = "0123456789" -> <<"0", "1", "2", "3", "4", "5", "6", "7", "8", "9">>
    [] s = "10" -> <<"1", "0">>
    [] s = "5630" -> <<"5", "6", "3", "0">>
    [] s = "5631" -> <<"5", "6", "3", "1">>
    [] s = "5632" -> <<"5", "6", "3", "2">>
    [] s = "5633" -> <<"5", "6", "3", "3">>
    [] s = "5634" -> <<"5", "6", "3", "4">>
    [] s = "5635" -> <<"5", "6", "3", "5">>
    [] s = "5636" -> <<"5", "6", "3", "6">>
    [] s = "Bulletin" -> <<"B", "u", "l", "l", "e", "t", "i", "n">>
    [] s = "CVE-A" -> <<"C", "V", "E", "-", "A">>
    [] s = "CVE-A CVE-B" -> <<"C", "V", "E", "-", "A", " ", "C", "V", "E", "-", "B">>
    [] s = "CVE-A overflow" -> <<"C", "V", "E", "-", "A", " ", "o", "v", "e", "r", "f", "l", "o", "w">>
    [] s = "CVE-A update" -> <<"C", "V", "E", "-", "A", " ", "u", "p", "d", "a", "t", "e">>
    [] s = "CVE-B" -> <<"C", "V", "E", "-", "B">>
    [] s = "CVE-B leak" -> <<"C", "V", "E", "-", "B", " ", "l", "e", "a", "k">>
    [] s = "High severity" -> <<"H", "i", "g", "h", " ", "s", "e", "v", "e", "r", "i", "t", "y">>
    [] s = "Latest 10" -> <<"L", "a", "t", "e", "s", "t", " ", "1", "0">>
    [] s = "N/A" -> <<"N", "/", "A">>
    [] s = "Notice" -> <<"N", "o", "t", "i", "c", "e">>
    [] s = "PAN-OS" -> <<"P", "A", "N", "-", "O", "S">>
    [] s = "Unknown" -> <<"U", "n", "k", "n", "o", "w", "n">>
    [] s = "after" -> <<"a", "f", "t", "e", "r">>
    [] s = "critical" -> <<"c", "r", "i", "t", "i", "c", "a", "l">>
    [] s = "critical severity" -> <<"c", "r", "i", "t", "i", "c", "a", "l", " ", "s", "e", "v", "e", "r", "i", "t", "y">>
    [] s = "cve for" -> <<"c", "v", "e", " ", "f", "o", "r">>
    [] s = "cve-" -> <<"c", "v", "e", "-">>
    [] s = "cves for" -> <<"c", "v", "e", "s", " ", "f", "o", "r">>
    [] s = "find cve" -> <<"f", "i", "n", "d", " ", "c", "v", "e">>
    [] s = "for" -> <<"f", "o", "r">>
    [] s = "hello" -> <<"h", "e", "l", "l", "o">>
    [] s = "high" -> <<"h", "i", "g", "h">>
    [] s = "info about" -> <<"i", "n", "f", "o", " ", "a", "b", "o", "u", "t">>
    [] s = "last updated for" -> <<"l", "a", "s", "t", " ", "u", "p", "d", "a", "t", "e", "d", " ", "f", "o", "r">>
    [] s = "latest" -> <<"l", "a", "t", "e", "s", "t">>
    [] s = "latest 105" -> <<"l", "a", "t", "e", "s", "t", " ", "1", "0", "5">>
    [] s = "latest critical severity" -> <<"l", "a", "t", "e", "s", "t", " ", "c", "r", "i", "t", "i", "c", "a", "l", " ", "s", "e", "v", "e", "r", "i", "t", "y">>
    [] s = "link for bulletin" -> <<"l", "i", "n", "k", " ", "f", "o", "r", " ", "b", "u", "l", "l", "e", "t", "i", "n">>
    [] s = "low" -> <<"l", "o", "w">>
    [] s = "low vulnerabilities" -> <<"l", "o", "w", " ", "v", "u", "l", "n", "e", "r", "a", "b", "i", "l", "i", "t", "i", "e", "s">>
    [] s = "medium" -> <<"m", "e", "d", "i", "u", "m">>
    [] s = "medium vulnerabilities" -> <<"m", "e", "d", "i", "u", "m", " ", "v", "u", "l", "n", "e", "r", "a", "b", "i", "l", "i", "t", "i", "e", "s">>
    [] s = "publish date for" -> <<"p", "u", "b", "l", "i", "s", "h", " ", "d", "a", "t", "e", " ", "f", "o", "r">>
    [] s = "recent" -> <<"r", "e", "c", "e", "n", "t">>
    [] s = "recent 5 " -> <<"r", "e", "c", "e", "n", "t", " ", "5", " ">>
    [] s = "search cve" -> <<"s", "e", "a", "r", "c", "h", " ", "c", "v", "e">>
    [] s = "show details of" -> <<"s", "h", "o", "w", " ", "d", "e", "t", "a", "i", "l", "s", " ", "o", "f">>
    [] s = "url for bulletin" -> <<"u", "r", "l", " ", "f", "o", "r", " ", "b", "u", "l", "l", "e", "t", "i", "n">>
    [] s = "details for" -> <<"d", "e", "t", "a", "i", "l", "s", " ", "f", "o", "r">>
    [] s = "http://" -> <<"h", "t", "t", "p", ":", "/", "/">>
    [] s = "https://" -> <<"h", "t", "t", "p", "s", ":", "/", "/">>
    [] s = "affected versions for" -> <<"a", "f", "f", "e", "c", "t", "e", "d", " ", "v", "e", "r", "s", "i", "o", "n", "s", " ", "f", "o", "r">>
    [] s = "unaffected versions for" -> <<"u", "n", "a", "f", "f", "e", "c", "t", "e", "d", " ", "v", "e", "r", "s", "i", "o", "n", "s", " ", "f", "o", "r">>
    [] s = "Details for CVE-2025-0128" -> <<"D", "e", "t", "a", "i", "l", "s", " ", "f", "o", "r", " ", "C", "V", "E", "-", "2", "0", "2", "5", "-", "0", "1", "2", "8">>
    [] s = "Affected versions for PAN-SA-2025-0008" -> <<"A", "f", "f", "e", "c", "t", "e", "d", " ", "v", "e", "r", "s", "i", "o", "n", "s", " ", "f", "o", "r", " ", "P", "A", "N", "-", "S", "A", "-", "2", "0", "2", "5", "-", "0", "0", "0", "8">>
    [] s = "Details for https://cisco/sa-1" -> <<"D", "e", "t", "a", "i", "l", "s", " ", "f", "o", "r", " ", "h", "t", "t", "p", "s", ":", "/", "/", "c", "i", "s", "c", "o", "/", "s", "a", "-", "1">>
    [] s = "CVE-2025-0128 after 2024" -> <<"C", "V", "E", "-", "2", "0", "2", "5", "-", "0", "1", "2", "8", " ", "a", "f", "t", "e", "r", " ", "2", "0", "2", "4">>
    [] s = "advisories after 2024" -> <<"a", "d", "v", "i", "s", "o", "r", "i", "e", "s", " ", "a", "f", "t", "e", "r", " ", "2", "0", "2", "4">>
    [] s = "Vulnerabilities for PAN-OS" -> <<"V", "u", "l", "n", "e", "r", "a", "b", "i", "l", "i", "t", "i", "e", "s", " ", "f", "o", "r", " ", "P", "A", "N", "-", "O", "S">>
    [] s = "high severity for PAN-OS" -> <<"h", "i", "g", "h", " ", "s", "e", "v", "e", "r", "i", "t", "y", " ", "f", "o", "r", " ", "P", "A", "N", "-", "O", "S">>
    [] s = "CVE-2025-0128" -> <<"C", "V", "E", "-", "2", "0", "2", "5", "-", "0", "1", "2", "8">>
    [] s = "PAN-SA-2025-0008" -> <<"P", "A", "N", "-", "S", "A", "-", "2", "0", "2", "5", "-", "0", "0", "0", "8">>
    [] s = "https://cisco/sa-1" -> <<"h", "t", "t", "p", "s", ":", "/", "/", "c", "i", "s", "c", "o", "/", "s", "a", "-", "1">>
    [] s = "https://cisco/sa-2" -> <<"h", "t", "t", "p", "s", ":", "/", "/", "c", "i", "s", "c", "o", "/", "s", "a", "-", "2">>
    [] s = "Prisma Access Browser" -> <<"P", "r", "i", "s", "m", "a", " ", "A", "c", "c", "e", "s", "s", " ", "B", "r", "o", "w", "s", "e", "r">>
    [] s = "Cisco IOS XE Software Flaw" -> <<"C", "i", "s", "c", "o", " ", "I", "O", "S", " ", "X", "E", " ", "S", "o", "f", "t", "w", "a", "r", "e", " ", "F", "l", "a", "w">>
    [] s = "< 11.1.2" -> <<"<", " ", "1", "1", ".", "1", ".", "2">>
    [] s = "< 132.83" -> <<"<", " ", "1", "3", "2", ".", "8", "3">>
    [] s = "Show latest 5 advisories" -> <<"S", "h", "o", "w", " ", "l", "a", "t", "e", "s", "t", " ", "5", " ", "a", "d", "v", "i", "s", "o", "r", "i", "e", "s">>
    [] s = "9.8" -> <<"9", ".", "8">>
    [] s = "7.5" -> <<"7", ".", "5">>
    [] s = "5.0" -> <<"5", ".", "0">>
    [] s = "2.1" -> <<"2", ".", "1">>
    [] s = "I" -> <<"I">>
    [] s = "i" -> <<"i">>
    [] s = "n/a" -> <<"n", "/", "a">>
    [] s = "nan" -> <<"n", "a", "n">>
    [] s = "inf" -> <<"i", "n", "f">>
    [] s = "infinity" -> <<"i", "n", "f", "i", "n", "i", "t", "y">>
    [] OTHER -> <<>>

(* ============================ query layer ============================== *)
(* ------------------------------ questions ------------------------------ *)
\* A question is the sequence of its characters, so that the substring
\* tests of the query functions are computed, not assumed.
LowerChar(c) ==
  CASE c = "A" -> "a"
    [] c = "B" -> "b"
    [] c = "C" -> "c"
    [] c = "D" -> "d"
    [] c = "E" -> "e"
    [] c = "F" -> "f"
    [] c = "G" -> "g"
    [] c = "H" -> "h"
    [] c = "I" -> "i"
    [] c = "J" -> "j"
    [] c = "K" -> "k"
    [] c = "L" -> "l"
    [] c = "M" -> "m"
    [] c = "N" -> "n"
    [] c = "O" -> "o"
    [] c = "P" -> "p"
    [] c = "Q" -> "q"
    [] c = "R" -> "r"
    [] c = "S" -> "s"
    [] c = "T" -> "t"
    [] c = "U" -> "u"
    [] c = "V" -> "v"
    [] c = "W" -> "w"
    [] c = "X" -> "x"
    [] c = "Y" -> "y"
    [] c = "Z" -> "z"
    [] OTHER -> c

IsDigit(c) == \E i \in 1..10 : Chars("0123456789")[i] = c

(* ------------------------------ page nodes ----------------------------- *)
\* A row node of the rendered page, as the extractors read it.
\*   cells : "ok" when the row has the cells the extractor expects, "short"
\*           when it has fewer (len(columns) < 4, len(cols) != 7, ...)
\*   link  : the title anchor: "ok", "nohref" (anchor without href) or
\*           "none" (no anchor in the title cell)
\*   title : text of the title / summary anchor
\*   sev   : vendor severity / impact text
\*   cvss  : characters of the text of the CVSS cell (Palo Alto)
\*   cve   : text of the CVE cell
\*   bid   : text of the bulletin-id cell (NVIDIA)
\*   pub, upd : text of the published / updated date cells
Node(cells, link, title, sev, cvss, cve, bid, pub, upd) ==
  [cells |-> cells, link |-> link, title |-> title, sev |-> sev,
   cvss |-> cvss, cve |-> cve, bid |-> bid, pub |-> pub, upd |-> upd]

NodeKinds ==
  { Node("ok", "ok", "CVE-A overflow", "Critical", Chars("9.8"), "CVE-A", "5630", "2025-05-08", "2025-05-08"),
    Node("ok", "ok", "CVE-A update", "High", Chars("7.5"), "CVE-A CVE-B", "5631", "2025-05-07", "2025-05-07"),
    Node("ok", "ok", "Bulletin", "Important", Chars("I"), "", "5632", "", ""),
    Node("ok", "ok", "Notice", "NVIDIA products are not affected", Chars("n/a"), "", "5633", "TBD", "TBD"),
    Node("ok", "nohref", "CVE-B leak", "Medium", Chars("5.0"), "CVE-B", "5634", "2025-05-07", "2025-05-07"),
    Node("ok", "none", "CVE-B leak", "Low", Chars("2.1"), "CVE-B", "5635", "2025-05-07", "2025-05-07"),
    Node("short", "ok", "CVE-B leak", "Low", Chars("2.1"), "CVE-B", "5636", "2025-05-07", "2025-05-07") }

RECURSIVE SeqsUpTo(_, _)
SeqsUpTo(S, n) ==
  IF n = 0 THEN { <<>> }
  ELSE LET shorter == SeqsUpTo(S, n - 1)
       IN shorter \cup { Append(q, x) : q \in { r \in shorter : Len(r) = n - 1 }, x \in S }

Pages == SeqsUpTo(NodeKinds, MaxRows)

(* --------------------------- string operations ------------------------- *)
\* str.lower() on the severity tokens the pipeline handles.
Lower(s) ==
  CASE s = "Critical" -> "critical"
    [] s = "CRITICAL" -> "critical"
    [] s = "High" -> "high"
    [] s = "HIGH" -> "high"
    [] s = "Medium" -> "medium"
    [] s = "MEDIUM" -> "medium"
    [] s = "Low" -> "low"
    [] s = "LOW" -> "low"
    [] s = "Informational" -> "informational"
    [] s = "Important" -> "important"
    [] s = "N/A" -> "n/a"
    [] s = "None" -> "none"
    [] s = "Unknown" -> "unknown"
    [] s = "NVIDIA products are not affected" -> "nvidia products are not affected"
    [] OTHER -> s

\* str.capitalize(): first letter upper case, the rest lower case.
Capitalize(s) ==
  CASE Lower(s) = "critical" -> "Critical"
    [] Lower(s) = "high" -> "High"
    [] Lower(s) = "medium" -> "Medium"
    [] Lower(s) = "low" -> "Low"
    [] Lower(s) = "informational" -> "Informational"
    [] Lower(s) = "important" -> "Important"
    [] Lower(s) = "none" -> "None"
    [] Lower(s) = "unknown" -> "Unknown"
    [] Lower(s) = "n/a" -> "N/a"
    [] OTHER -> s

\* The identifier list comprehension of the Cisco / Intel / Dell row loop:
\* the first token of the CVE cell (split on the vendor's separator) that
\* starts with "CVE-", or "N/A" when there is none.  A cell text
\* "CVE-A CVE-B" stands for two identifiers in the vendor's own format.
FirstCve(cve_text) ==
  CASE cve_text = "CVE-A" -> "CVE-A"
    [] cve_text = "CVE-B" -> "CVE-B"
    [] cve_text = "CVE-A CVE-B" -> "CVE-A"
    [] OTHER -> NA

\* summary.split()[0] if summary starts with "CVE-" or "PAN-SA-", else "N/A".
SummaryId(summary) ==
  CASE summary = "CVE-A overflow" -> "CVE-A"
    [] summary = "CVE-A update" -> "CVE-A"
    [] summary = "CVE-B leak" -> "CVE-B"
    [] OTHER -> NA

(* --------------------------- enrichment client ------------------------- *)
\* The HTTP exchange of one fetch_nvd_data call, as the function reads it.
\*   status : "neterr" (requests.get raises), "http" (raise_for_status
\*            raises), "badjson" (response.json raises) or "ok"
\*   vulns  : data["vulnerabilities"]: "nokey", "empty" or "one"
\*   cve, metrics : the record has the "cve" / "metrics" key
\*   v31    : metrics["cvssMetricV31"]: "absent", "emptylist" or "present"
\*   score, severity : cvssData baseScore / baseSeverity ("absent" = no key)
\*   descriptions : "nokey", "plain" or "mitigation" (a description whose
\*            text contains "mitigation")
Response(status, vulns, cve, metrics, v31, score, severity, descriptions) ==
  [status |-> status, vulns |-> vulns, cve |-> cve, metrics |-> metrics,
   v31 |-> v31, score |-> score, severity |-> severity,
   descriptions |-> descriptions]

\* Every shape of exchange the enrichment client is checked on.
Responses ==
  { Response(st, vu, cv, me, v3, sc[1], sc[2], de) :
      st \in {"neterr", "http", "badjson", "ok"},
      vu \in {"nokey", "empty", "one"},
      cv \in BOOLEAN, me \in BOOLEAN,
      v3 \in {"absent", "emptylist", "present"},
      sc \in { <<"9.8", "CRITICAL">>, <<"5.0", "MEDIUM">>, <<"absent", "absent">> },
      de \in {"nokey", "plain", "mitigation"} }

\* The exchanges an extractor run meets in its row loop.
RunResponses ==
  { Response("neterr", "nokey", FALSE, FALSE, "absent", "absent", "absent", "nokey"),
    Response("ok", "empty", FALSE, FALSE, "absent", "absent", "absent", "nokey"),
    Response("ok", "one", TRUE, TRUE, "present", "9.8", "CRITICAL", "plain"),
    Response("ok", "one", TRUE, TRUE, "present", "5.0", "MEDIUM", "mitigation") }

UnknownTriple ==
  [score |-> NA, severity |-> NA, mitigation |-> NA]

\* What fetch_nvd_data hands back to its caller: the exception that left
\* it (NoExc when it returned), whether an HTTP request was issued, and
\* the returned triple.
NvdResult(raised, requested, triple) ==
  [raised |-> raised, requested |-> requested, triple |-> triple]

\* The exception the try block of fetch_nvd_data raises on `resp' (NoExc
\* when it runs to a return statement).
NvdTryException(resp) ==
  IF resp.status = "neterr" THEN "RequestException"
  ELSE IF resp.status = "http" THEN "HTTPError"
  ELSE IF resp.status = "badjson" THEN "ValueError"
  ELSE IF resp.vulns # "one" THEN NoExc
  ELSE IF ~resp.cve \/ ~resp.metrics THEN "KeyError"
  ELSE IF resp.v31 = "emptylist" THEN "IndexError"
  ELSE IF resp.descriptions = "nokey" THEN "KeyError"
  ELSE NoExc

\* The triple the try block returns when it raises nothing.
NvdTryReturn(resp) ==
  IF resp.vulns # "one" THEN UnknownTriple
  ELSE [score |-> IF resp.v31 = "present" /\ resp.score # "absent" THEN resp.score ELSE NA,
        severity |-> IF resp.v31 = "present" /\ resp.severity # "absent" THEN resp.severity ELSE NA,
        mitigation |-> IF resp.descriptions = "mitigation" THEN "mitigation text" ELSE NA]

\* fetch_nvd_data with the except clause left out: the exception escapes.
fetch_nvd_data_unguarded(key, resp) ==
  IF key = "" THEN NvdResult(NoExc, FALSE, UnknownTriple)
  ELSE IF NvdTryException(resp) # NoExc
       THEN NvdResult(NvdTryException(resp), TRUE, UnknownTriple)
       ELSE NvdResult(NoExc, TRUE, NvdTryReturn(resp))

\* fetch_nvd_data(cve_id) under the configured NVD_API_KEY `key', when the
\* service answers `resp': no request without a key; any exception of the
\* try block is caught and answered with the unknown triple.
fetch_nvd_data(key, resp) ==
  IF key = "" THEN NvdResult(NoExc, FALSE, UnknownTriple)
  ELSE IF NvdTryException(resp) # NoExc
       THEN NvdResult(NoExc, TRUE, UnknownTriple)
       ELSE NvdResult(NoExc, TRUE, NvdTryReturn(resp))

\* The row loop's guarded call: no lookup for a row without a CVE id.
RowLookup(cve_id, key, resp) ==
  IF cve_id # NA THEN fetch_nvd_data(key, resp)
  ELSE NvdResult(NoExc, FALSE, UnknownTriple)

\* severity = nvd["Severity Level"].capitalize() if it is not "N/A", else
\* the fallback (impact_text for Dell, "N/A" for Cisco and Intel).
RowSeverity(nvd, fallback) ==
  IF nvd.triple.severity # NA THEN Capitalize(nvd.triple.severity) ELSE fallback

(* ------------------------------- tables -------------------------------- *)
\* A DataFrame: its column names in order and its rows, each row a
\* function from the column names to cell texts.
Table(cols, rows) == [cols |-> cols, rows |-> rows]
EmptyTable == Table(<<>>, <<>>)
\* None where a table is expected.
NoneTable == [none |-> TRUE]
IsEmpty(df) == Len(df.rows) = 0
Range(q) == { q[i] : i \in 1..Len(q) }
HasCol(df, c) == c \in Range(df.cols)

\* pd.DataFrame(data): the columns are the keys of the first record.
DataFrame(cols, data) == IF Len(data) = 0 THEN EmptyTable ELSE Table(cols, data)

RawCols(v) ==
  CASE v = "Cisco" -> <<"OEM Name", "Vulnerability", "Description", "URL", "Last Updated">>
    [] v = "Intel" -> <<"OEM Name", "Vulnerability", "Published Date", "URL", "Last Updated">>
    [] v = "NVIDIA" -> <<"Title", "Bulletin ID", "Severity", "CVE Identifier(s)",
                         "Publish Date", "Last Updated", "URL">>
    [] v = "Dell" -> <<"OEM Name", "Vulnerability", "Description", "Published Date",
                       "Unique ID", "URL", "Last Updated">>
    [] v = "Adobe" -> <<"Section", "Title", "Posted", "Updated", "Severity Level">>
    [] v = "Palo Alto Networks" ->
         <<"Product Name", "Product Version", "OEM Name", "Vulnerability", "Description",
           "Published Date", "Last Updated", "Unique ID", "URL", "Severity Level",
           "Affected Versions", "Unaffected Versions">>

(* ------------------------------ row harvest ---------------------------- *)
\* The outcome of one pass of an extractor's row loop over one node:
\* a record appended ("row"), the node passed over ("skip"), or an
\* exception leaving the loop body ("raise").
Appended(row, cve_id) == [kind |-> "row", row |-> row, cve_id |-> cve_id, exc |-> NoExc]
Skipped == [kind |-> "skip", row |-> << >>, cve_id |-> NA, exc |-> NoExc]
Raised(e) == [kind |-> "raise", row |-> << >>, cve_id |-> NA, exc |-> e]

Href(node) == "/advisory/" \o node.title
None == "None"

\* scrape_cisco: every field has its own try/except and falls back to
\* "N/A" ("#" for the link); the record is always appended.
CiscoRow(node) ==
  LET found == node.cells = "ok"
      cve_text == IF found THEN node.cve ELSE NA
  IN Appended(
       ("OEM Name" :> "Cisco")
       @@ ("Vulnerability" :> IF node.link = "none" THEN NA ELSE node.title)
       @@ ("Description" :> IF found THEN node.sev ELSE NA)
       @@ ("URL" :> CASE node.link = "ok" -> "https://sec.cloudapps.cisco.com" \o Href(node)
                      [] node.link = "nohref" -> None
                      [] OTHER -> "#")
       @@ ("Last Updated" :> IF found THEN node.upd ELSE NA),
       FirstCve(cve_text))

\* scrape_intel: rows with fewer than four cells are passed over; the
\* link's href is indexed without a guard.
IntelRow(node) ==
  IF node.cells # "ok" THEN Skipped
  ELSE IF node.link = "nohref" THEN Raised("KeyError")
  ELSE Appended(
       ("OEM Name" :> "Intel")
       @@ ("Vulnerability" :> node.title)
       @@ ("Published Date" :> node.pub)
       @@ ("URL" :> IF node.link = "ok" THEN "https://www.intel.com" \o Href(node) ELSE "#")
       @@ ("Last Updated" :> node.upd),
       FirstCve(node.cve))

\* scrape_nvidia: the severity token is kept when it is one of the valid
\* tokens and replaced by "N/A" otherwise.
valid_severities ==
  {"N/A", "None", "NVIDIA products are not affected", "Low", "Medium", "High", "Critical"}

NvidiaSeverityUnchecked(severity) == severity

NvidiaSeverity(severity) == IF severity \in valid_severities THEN severity ELSE NA

NvidiaRow(node) ==
  IF node.cells # "ok" THEN Skipped
  ELSE IF node.link = "none" THEN Raised("NoSuchElement")
  ELSE Appended(
       ("Title" :> node.title)
       @@ ("Bulletin ID" :> node.bid)
       @@ ("Severity" :> NvidiaSeverity(node.sev))
       @@ ("CVE Identifier(s)" :> node.cve)
       @@ ("Publish Date" :> node.pub)
       @@ ("Last Updated" :> node.upd)
       @@ ("URL" :> IF node.link = "ok" THEN "https://nvidia.custhelp.com" \o Href(node) ELSE None),
       NA)

\* scrape_dell: Description carries the enrichment severity, or the impact
\* badge text when enrichment has none.
DellRow(node, nvd) ==
  IF node.cells # "ok" THEN Skipped
  ELSE IF node.link = "nohref" THEN Raised("KeyError")
  ELSE Appended(
       ("OEM Name" :> "Dell")
       @@ ("Vulnerability" :> IF node.link = "ok" THEN node.title ELSE "Unknown")
       @@ ("Description" :> RowSeverity(nvd, node.sev))
       @@ ("Published Date" :> node.pub)
       @@ ("Unique ID" :> FirstCve(node.cve))
       @@ ("URL" :> IF node.link = "ok" THEN "https://www.dell.com" \o Href(node) ELSE "#")
       @@ ("Last Updated" :> node.upd),
       FirstCve(node.cve))

\* scrape_adobe: rows with fewer than three cells are passed over.
AdobeRow(node) ==
  IF node.cells # "ok" THEN Skipped
  ELSE Appended(
       ("Section" :> "Adobe Acrobat")
       @@ ("Title" :> node.title)
       @@ ("Posted" :> node.pub)
       @@ ("Updated" :> node.upd)
       @@ ("Severity Level" :> NA),
       NA)


\* float(s) for a text made of a sign, digits and points, or one of the
\* words float() knows: the number in tenths (rounded towards zero, which
\* no threshold can tell from the number), with +-10000 for the
\* infinities; "nan" for the not-a-number value; "ValueError" for a text
\* float() rejects.
PyFloat(s) ==
  LET low == [i \in 1..Len(s) |-> LowerChar(s[i])]
      signed == Len(low) > 0 /\ low[1] \in {"+", "-"}
      sign == IF signed /\ low[1] = "-" THEN -1 ELSE 1
      body == IF signed THEN Tail(low) ELSE low
      points == { i \in 1..Len(body) : body[i] = "." }
      numeric == /\ \A i \in 1..Len(body) : body[i] = "." \/ IsDigit(body[i])
                 /\ Cardinality(points) <= 1
                 /\ \E i \in 1..Len(body) : IsDigit(body[i])
      cut == IF points = {} THEN Len(body) + 1 ELSE CHOOSE i \in points : TRUE
      Value(c) == CHOOSE n \in 0..9 : Chars("0123456789")[n + 1] = c
      Whole[i \in 0..Len(body)] == IF i = 0 THEN 0 ELSE 10 * Whole[i - 1] + Value(body[i])
      tenth == IF cut < Len(body) THEN Value(body[cut + 1]) ELSE 0
  IN IF body = Chars("nan") THEN [kind |-> "nan", tenths |-> 0]
     ELSE IF body \in {Chars("inf"), Chars("infinity")}
     THEN [kind |-> "number", tenths |-> sign * 10000]
     ELSE IF numeric THEN [kind |-> "number", tenths |-> sign * (10 * Whole[cut - 1] + tenth)]
     ELSE [kind |-> "ValueError", tenths |-> 0]

\* The threshold ladder of scrape_palo_alto on a parsed score.
PaloScoreLevel(tenths) ==
  IF tenths >= 90 THEN "Critical"
  ELSE IF tenths >= 70 THEN "High"
  ELSE IF tenths >= 40 THEN "Medium"
  ELSE "Low"

\* Lines 145-160: a cell reading "i" in either case is Informational; any
\* other cell goes through float() and the ladder, where every comparison
\* with the not-a-number value is false; ValueError leaves "N/A".
PaloSeverityUpperOnly(cvss_score) ==
  LET x == PyFloat(cvss_score)
  IN IF cvss_score = Chars("I") THEN "Informational"
     ELSE IF x.kind = "ValueError" THEN NA
     ELSE IF x.kind = "nan" THEN "Low"
     ELSE PaloScoreLevel(x.tenths)

PaloSeverity(cvss_score) ==
  LET x == PyFloat(cvss_score)
  IN IF [i \in 1..Len(cvss_score) |-> LowerChar(cvss_score[i])] = Chars("i") THEN "Informational"
     ELSE IF x.kind = "ValueError" THEN NA
     ELSE IF x.kind = "nan" THEN "Low"
     ELSE PaloScoreLevel(x.tenths)

\* scrape_palo_alto: rows that do not have exactly seven cells are passed
\* over; the summary link's href is indexed without a guard.
PaloAltoRow(node) ==
  IF node.cells # "ok" THEN Skipped
  ELSE IF node.link = "nohref" THEN Raised("KeyError")
  ELSE LET summary == IF node.link = "ok" THEN node.title ELSE NA
           cve_id == SummaryId(summary)
       IN Appended(
            ("Product Name" :> "PAN-OS")
            @@ ("Product Version" :> NA)
            @@ ("OEM Name" :> "Palo Alto Networks")
            @@ ("Vulnerability" :> summary)
            @@ ("Description" :> cve_id)
            @@ ("Published Date" :> node.pub)
            @@ ("Last Updated" :> node.upd)
            @@ ("Unique ID" :> cve_id)
            @@ ("URL" :> IF node.link = "ok"
                         THEN "https://security.paloaltonetworks.com" \o Href(node) ELSE NA)
            @@ ("Severity Level" :> PaloSeverity(node.cvss))
            @@ ("Affected Versions" :> "< 11.1.2")
            @@ ("Unaffected Versions" :> ">= 11.1.2"),
            NA)

\* The vendors whose row loop calls fetch_nvd_data.
CallsNvd(v) == v \in {"Cisco", "Intel", "Dell"}

HarvestNode(v, node, nvd) ==
  CASE v = "Cisco" -> CiscoRow(node)
    [] v = "Intel" -> IntelRow(node)
    [] v = "NVIDIA" -> NvidiaRow(node)
    [] v = "Dell" -> DellRow(node, nvd)
    [] v = "Adobe" -> AdobeRow(node)
    [] v = "Palo Alto Networks" -> PaloAltoRow(node)

(* ------------------------ Palo Alto frame building --------------------- *)
\* pd.to_datetime(..., errors='coerce') followed by the text pandas prints
\* for the value: an ISO date, or NaT where parsing fails.
ToDatetime(s) ==
  CASE s = "2025-05-08" -> "2025-05-08"
    [] s = "2025-05-07" -> "2025-05-07"
    [] OTHER -> NaT

\* Calendar order of a date text; 0 for a value that is no date.
DateOrd(s) ==
  CASE s = "2025-05-08" -> 20250508
    [] s = "2025-05-07" -> 20250507
    [] OTHER -> 0

\* String order of the identifiers ("CVE-A" < "CVE-B" < "N/A").
IdOrd(s) ==
  CASE s = "CVE-A" -> 1
    [] s = "CVE-B" -> 2
    [] OTHER -> 3

\* The orders sort_values may leave `rows' in: every arrangement of the
\* rows in which the keys do not decrease.  The default sort kind is not
\* stable, so rows with equal keys may come out in either order.
RECURSIVE SortedBy(_, _)
SortedBy(rows, key) ==
  IF Len(rows) = 0 THEN { <<>> }
  ELSE LET least == { i \in 1..Len(rows) :
                       \A j \in 1..Len(rows) : key[rows[i]] <= key[rows[j]] }
           firsts == { i \in least : \A j \in least : rows[j] = rows[i] => i <= j }
           Without(i) == SubSeq(rows, 1, i - 1) \o SubSeq(rows, i + 1, Len(rows))
       IN UNION { { <<rows[i]>> \o rest : rest \in SortedBy(Without(i), key) } : i \in firsts }

\* drop_duplicates(subset=[col], keep="first").
RECURSIVE DropDuplicates(_, _)
DropDuplicates(rows, col) ==
  IF Len(rows) = 0 THEN <<>>
  ELSE LET init == DropDuplicates(SubSeq(rows, 1, Len(rows) - 1), col)
           last == rows[Len(rows)]
       IN IF \E i \in 1..Len(init) : init[i][col] = last[col] THEN init ELSE Append(init, last)

SetCol(row, col, val) == [row EXCEPT ![col] = val]

\* The frames lines 178-182 of scrape_palo_alto can build from `data'.
PaloAltoFrames(data) ==
  IF Len(data) = 0 THEN { EmptyTable }
  ELSE LET ById(rows) == [r \in Range(rows) |-> IdOrd(r["Unique ID"])]
           Coerce(rows) ==
             [i \in 1..Len(rows) |->
                SetCol(rows[i], "Published Date", ToDatetime(rows[i]["Published Date"]))]
           Newest(rows) ==
             [r \in Range(rows) |->
                IF r["Published Date"] = NaT THEN 1 ELSE - DateOrd(r["Published Date"])]
           Dated(sorted) == Coerce(DropDuplicates(sorted, "Unique ID"))
       IN { Table(RawCols("Palo Alto Networks"), rows) : rows \in
              UNION { SortedBy(Dated(sorted), Newest(Dated(sorted)))
                      : sorted \in SortedBy(data, ById(data)) } }

(* ------------------------------ normaliser ----------------------------- *)
\* df.columns.str.lower().str.replace(" ", "_") on the extractors' columns.
NormCol(c) ==
  CASE c = "OEM Name" -> "oem_name"
    [] c = "Vulnerability" -> "vulnerability"
    [] c = "Description" -> "description"
    [] c = "URL" -> "url"
    [] c = "Last Updated" -> "last_updated"
    [] c = "Published Date" -> "published_date"
    [] c = "Title" -> "title"
    [] c = "Bulletin ID" -> "bulletin_id"
    [] c = "Severity" -> "severity"
    [] c = "CVE Identifier(s)" -> "cve_identifier(s)"
    [] c = "Publish Date" -> "publish_date"
    [] c = "Unique ID" -> "unique_id"
    [] c = "Section" -> "section"
    [] c = "Posted" -> "posted"
    [] c = "Updated" -> "updated"
    [] c = "Severity Level" -> "severity_level"
    [] c = "Product Name" -> "product_name"
    [] c = "Product Version" -> "product_version"
    [] c = "Affected Versions" -> "affected_versions"
    [] c = "Unaffected Versions" -> "unaffected_versions"
    [] OTHER -> c

\* df.rename / df.columns = ...: every column name c becomes to[c].
RenameCols(df, to) ==
  Table([i \in 1..Len(df.cols) |-> to[df.cols[i]]],
        [k \in 1..Len(df.rows) |->
           [c \in { to[o] : o \in Range(df.cols) } |->
              df.rows[k][CHOOSE o \in Range(df.cols) : to[o] = c]]])

\* df[col] = ...: row r gets val[r]; a new column is appended.
AssignCol(df, col, val) ==
  Table(IF HasCol(df, col) THEN df.cols ELSE Append(df.cols, col),
        [k \in 1..Len(df.rows) |->
           [c \in Range(df.cols) \cup {col} |->
              IF c = col THEN val[df.rows[k]] ELSE df.rows[k][c]]])

\* df[mask]: the rows whose mask is true, in order.
SelectRows(rows, keep) ==
  LET F[i \in 0..Len(rows)] ==
        IF i = 0 THEN <<>>
        ELSE IF keep[rows[i]] THEN Append(F[i - 1], rows[i]) ELSE F[i - 1]
  IN F[Len(rows)]

date_columns ==
  {"date", "published", "date_published", "publication_date", "release_date",
   "publisheddate", "issue_date", "posted_date", "posted", "last_modified"}

severity_cols ==
  <<"severity", "impact", "description", "cvss_score", "severity_rating",
    "base_score", "cvss_base_score", "cvss">>

\* The first element of `cols' (in order) that is in the set S, or "" if none.
FirstIn(cols, S) ==
  IF \E i \in 1..Len(cols) : cols[i] \in S
  THEN cols[CHOOSE i \in 1..Len(cols) : cols[i] \in S /\ \A j \in 1..(i - 1) : cols[j] \notin S]
  ELSE ""

\* Lines 247-258: the first date-like column is renamed published_date.
MapDateColumn(df) ==
  LET found == FirstIn(df.cols, date_columns)
  IN IF found # "" THEN RenameCols(df, [c \in Range(df.cols) |-> IF c = found THEN "published_date" ELSE c])
     ELSE df

\* astype(str): the text pandas gives a cell.
AsStr(x) ==
  CASE x = NaN -> "nan"
    [] x = NaT -> "NaT"
    [] OTHER -> x

\* .astype(str).replace("nan", "N/A").replace("", "N/A") on one cell.
DateCellToString(x) ==
  LET t == AsStr(x)
      u == IF t = "nan" THEN NA ELSE t
  IN IF u = "" THEN NA ELSE u

\* Lines 260-264: published_date and last_updated are forced to strings.
ForceDateStrings(df) ==
  LET One(d, col) ==
        IF HasCol(d, col) THEN AssignCol(d, col, [r \in Range(d.rows) |-> DateCellToString(r[col])]) ELSE d
  IN One(One(df, "published_date"), "last_updated")

\* str.extract(r'(Critical|High|Medium|Low|Informational)', IGNORECASE) on
\* one cell: the matched text as written in the cell, or NaN.
ExtractSeverityWord(s) ==
  CASE Lower(s) \in {"critical", "high", "medium", "low", "informational"} -> s
    [] s = "CVSS: 9.8 (Critical)" -> "Critical"
    [] s \in {"Severity: High", "High (CVSS 7.5)"} -> "High"
    [] OTHER -> NaN

\* The 'CVSS: x.y (Level)', 'Severity: Level' / 'Rating: Level' and
\* 'Level (CVSS x.y)' patterns on one cell.
ExtractCvssFormat(s) == IF s = "CVSS: 9.8 (Critical)" THEN "Critical" ELSE NaN
ExtractRatingFormat(s) == IF s = "Severity: High" THEN "High" ELSE NaN
ExtractCiscoFormat(s) == IF s = "High (CVSS 7.5)" THEN "High" ELSE NaN

\* str.extract(r'(?:CVSS: )?(\d+\.\d+)').astype(float) on one cell, in
\* tenths; -1 for NaN (a cell without digits, a point and digits: every
\* other cell a table of the model holds).
ExtractCvssScore(s) ==
  CASE s = "CVSS: 9.8 (Critical)" -> 98
    [] s = "High (CVSS 7.5)" -> 75
    [] s = "9.8" -> 98
    [] s = "7.5" -> 75
    [] s = "5.0" -> 50
    [] s = "2.1" -> 21
    [] OTHER -> -1

\* The lambda of lines 296 and 321 (NaN compares false everywhere).
CvssToSeverity(tenths) ==
  IF tenths >= 90 THEN "Critical"
  ELSE IF tenths >= 70 THEN "High"
  ELSE IF tenths >= 40 THEN "Medium"
  ELSE IF tenths > 0 THEN "Low"
  ELSE NA

AnyNotNa(df, col) == \E k \in 1..Len(df.rows) : df.rows[k][col] # NaN

\* One pass of the loop of lines 300-330 over a severity-like column:
\* the patterns are tried in turn, the first that matches any row wins.
TrySeverityColumn(oem, df, col) ==
  LET word == AssignCol(df, "severity_level", [r \in Range(df.rows) |-> ExtractSeverityWord(r[col])])
      cvssf == AssignCol(df, "severity_level", [r \in Range(df.rows) |-> ExtractCvssFormat(r[col])])
      rating == AssignCol(df, "severity_level", [r \in Range(df.rows) |-> ExtractRatingFormat(r[col])])
      scored == AssignCol(df, "severity_level", [r \in Range(df.rows) |-> CvssToSeverity(ExtractCvssScore(r[col]))])
      cisco == AssignCol(df, "severity_level", [r \in Range(df.rows) |-> ExtractCiscoFormat(r[col])])
  IN IF AnyNotNa(word, "severity_level") THEN [found |-> TRUE, df |-> word]
     ELSE IF AnyNotNa(cvssf, "severity_level") THEN [found |-> TRUE, df |-> cvssf]
     ELSE IF AnyNotNa(rating, "severity_level") THEN [found |-> TRUE, df |-> rating]
     ELSE IF \E k \in 1..Len(df.rows) : ExtractCvssScore(df.rows[k][col]) >= 0
          THEN [found |-> TRUE, df |-> scored]
     ELSE IF oem = "Cisco" /\ AnyNotNa(cisco, "severity_level") THEN [found |-> TRUE, df |-> cisco]
     ELSE [found |-> FALSE, df |-> IF oem = "Cisco" THEN cisco ELSE rating]

RECURSIVE SeverityLoop(_, _, _)
SeverityLoop(oem, df, i) ==
  IF i > Len(severity_cols) THEN [found |-> FALSE, df |-> df]
  ELSE IF ~HasCol(df, severity_cols[i]) THEN SeverityLoop(oem, df, i + 1)
  ELSE LET t == TrySeverityColumn(oem, df, severity_cols[i])
       IN IF t.found THEN t ELSE SeverityLoop(oem, t.df, i + 1)

\* Lines 266-333 with the chain run whether or not the extractor set
\* severity_level.
ExtractSeverityAlways(oem, df) ==
  LET t == SeverityLoop(oem, df, 1)
  IN IF t.found THEN t.df
     ELSE AssignCol(t.df, "severity_level", [r \in Range(t.df.rows) |-> NA])

\* Lines 266-333: severity_level is derived when the extractor set none.
ExtractSeverity(oem, df) ==
  LET severity_col_found == FirstIn(df.cols, Range(severity_cols))
      Default(d) == AssignCol(d, "severity_level", [r \in Range(d.rows) |-> NA])
  IN IF HasCol(df, "severity_level") THEN df
     ELSE IF oem = "Dell" /\ HasCol(df, "description")
     THEN AssignCol(df, "severity_level",
            [r \in Range(df.rows) |-> LET w == ExtractSeverityWord(r["description"])
                       IN Lower(IF w = NaN THEN NA ELSE w)])
     ELSE IF oem = "NVIDIA" /\ severity_col_found # ""
     THEN LET word == AssignCol(df, "severity_level",
                        [r \in Range(df.rows) |-> ExtractSeverityWord(r[severity_col_found])])
              scored == AssignCol(df, "severity_level",
                        [r \in Range(df.rows) |-> CvssToSeverity(ExtractCvssScore(r[severity_col_found]))])
          IN IF AnyNotNa(word, "severity_level") THEN word
             ELSE IF \E k \in 1..Len(df.rows) :
                       ExtractCvssScore(df.rows[k][severity_col_found]) >= 0
                  THEN scored
             ELSE Default(word)
     ELSE LET t == SeverityLoop(oem, df, 1)
          IN IF t.found THEN t.df ELSE Default(t.df)

\* Lines 335-345 with a filter that lets every row through.
ApplySeverityFilterKeepAll(df, severity_filter) ==
  AssignCol(df, "severity_level", [r \in Range(df.rows) |-> Lower(r["severity_level"])])

\* Lines 335-345: severity_level is lower-cased and the rows whose level
\* is not among the selected ones are dropped.
ApplySeverityFilter(df, severity_filter) ==
  LET lowered == AssignCol(df, "severity_level", [r \in Range(df.rows) |-> Lower(r["severity_level"])])
      severity_filter_lower == { Lower(x) : x \in severity_filter }
  IN Table(lowered.cols,
           SelectRows(lowered.rows, [r \in Range(lowered.rows) |-> r["severity_level"] \in severity_filter_lower]))

\* Lines 242-345: the table the scan stores for a non-empty extractor result.
Normalize(oem, df, severity_filter) ==
  ApplySeverityFilter(
    ExtractSeverity(oem, ForceDateStrings(MapDateColumn(RenameCols(df, [c \in Range(df.cols) |-> NormCol(c)])))),
    severity_filter)

severity_options == {"N/A", "Low", "Medium", "High", "Critical", "Informational"}

Filters == { severity_options, {"Critical", "High"}, {"N/A"} }

Min(a, b) == IF a <= b THEN a ELSE b

IsSpace(c) == c \in {" "}

RECURSIVE Strip(_)
Strip(q) ==
  IF Len(q) = 0 THEN q
  ELSE IF IsSpace(q[1]) THEN Strip(Tail(q))
  ELSE IF IsSpace(q[Len(q)]) THEN Strip(SubSeq(q, 1, Len(q) - 1))
  ELSE q

\* clean_text(text): str(text).lower().strip().
clean_text(text) == Strip([i \in 1..Len(text) |-> LowerChar(text[i])])

\* pat in q, for Python strings.
Contains(q, pat) ==
  \E i \in 0..(Len(q) - Len(pat)) : \A j \in 1..Len(pat) : q[i + j] = pat[j]


\* The level names the severity rule runs through, in its order.
severities == <<"critical", "high", "medium", "low">>

\* The questions put to the query functions.
Questions ==
  { Chars("latest"), Chars("Latest 10"), Chars("recent 5 "), Chars("latest 105"),
    Chars("latest critical severity"), Chars("critical severity"), Chars("High severity"),
    Chars("medium vulnerabilities"), Chars("low vulnerabilities"), Chars("critical"), Chars("hello"),
    Chars("Details for CVE-2025-0128"), Chars("Affected versions for PAN-SA-2025-0008"),
    Chars("Details for https://cisco/sa-1"), Chars("CVE-2025-0128 after 2024"),
    Chars("advisories after 2024"), Chars("Vulnerabilities for PAN-OS"),
    Chars("high severity for PAN-OS") }

\* Where pat occurs in q: the positions of its first character.
Occurrences(q, pat) ==
  { i \in 1..(Len(q) - Len(pat) + 1) : \A j \in 1..Len(pat) : q[i + j - 1] = pat[j] }

AfterForNever(q) == <<>>

\* re.search(r'for\s+(.+)', q).group(1).strip() on a stripped question,
\* <<>> when the pattern does not match: what follows the first "for"
\* that has white space and something more after it.
AfterFor(q) ==
  LET starts == { i \in Occurrences(q, Chars("for")) :
                    i + 3 < Len(q) /\ IsSpace(q[i + 3]) }
  IN IF starts = {} THEN <<>>
     ELSE LET i == CHOOSE m \in starts : \A n \in starts : m <= n
          IN Strip(SubSeq(q, i + 4, Len(q)))

RECURSIVE SkipSpaces(_, _)
SkipSpaces(q, k) == IF k <= Len(q) /\ IsSpace(q[k]) THEN SkipSpaces(q, k + 1) ELSE k

\* re.search(r'after\s+(\d{4})', q): the year as a number, 0 when the
\* pattern does not match.
AfterYear(q) ==
  LET Digits(k) == k + 3 <= Len(q) /\ \A d \in 0..3 : IsDigit(q[k + d])
      Value(c) == CHOOSE n \in 0..9 : Chars("0123456789")[n + 1] = c
      YearAt(k) == 1000 * Value(q[k]) + 100 * Value(q[k + 1]) + 10 * Value(q[k + 2]) + Value(q[k + 3])
      starts == { i \in Occurrences(q, Chars("after")) :
                    /\ i + 5 <= Len(q) /\ IsSpace(q[i + 5])
                    /\ Digits(SkipSpaces(q, i + 5)) }
  IN IF starts = {} THEN 0
     ELSE LET i == CHOOSE m \in starts : \A n \in starts : m <= n
          IN YearAt(SkipSpaces(q, i + 5))

\* df[df[col].str.contains(needle, case=False, na=False)] for a needle
\* without regular-expression operators.
ByContains(df, col, needle) ==
  LET low(t) == [i \in 1..Len(t) |-> LowerChar(t[i])]
  IN Table(df.cols,
           SelectRows(df.rows,
             [r \in Range(df.rows) |-> r[col] # NaN /\ Contains(low(Chars(r[col])), low(needle))]))

\* df[df[col] > pd.to_datetime(f"{year}-01-01")] on a column of Timestamps.
AfterCutoff(df, col, year) ==
  Table(df.cols,
        SelectRows(df.rows,
          [r \in Range(df.rows) |-> r[col] # NaT /\ DateOrd(r[col]) > year * 10000 + 101]))

(* --------------------------- query functions --------------------------- *)
\* pd.DataFrame([{"Response": text}]).
ResponseFrame(text) == Table(<<"Response">>, <<[Response |-> text]>>)
MissingColumns == "missing required columns"
NotUnderstood == "could not understand"

\* N of the latest rule: 10 when "10" is in the question, 5 otherwise
\* (the elif on "5" assigns the default again).
LatestN(question) == IF Contains(question, Chars("10")) THEN 10 ELSE 5

IsLatest(question) == Contains(question, Chars("latest")) \/ Contains(question, Chars("recent"))

\* sort_values(by=col, ascending=False).head(N) on a column of Timestamps:
\* later dates first, NaT last.
LatestByDate(df, col, N) ==
  LET newest == [r \in Range(df.rows) |-> IF r[col] = NaT THEN 1 ELSE - DateOrd(r[col])]
  IN { Table(df.cols, SubSeq(sorted, 1, Min(N, Len(sorted))))
         : sorted \in SortedBy(df.rows, newest) }

\* Python's order on the texts a date column holds: the empty text first,
\* digits before upper-case letters.
StrOrd(s) ==
  CASE s = "" -> 0
    [] s = "2025-05-07" -> 1
    [] s = "2025-05-08" -> 2
    [] s = "N/A" -> 3
    [] s = "NaT" -> 4
    [] s = "TBD" -> 5
    [] OTHER -> 6

\* sort_values(by=col, ascending=False).head(N) on a column of strings.
LatestByText(df, col, N) ==
  LET last == [r \in Range(df.rows) |-> - StrOrd(r[col])]
  IN { Table(df.cols, SubSeq(sorted, 1, Min(N, Len(sorted))))
         : sorted \in SortedBy(df.rows, last) }

\* The first level of the severity loop whose phrase is in the question,
\* 0 when there is none.  with_vulnerabilities: the loop also accepts
\* "<level> vulnerabilities" (Cisco, Palo Alto).
SeverityAsked(question, with_vulnerabilities) ==
  LET Asked(i) ==
        \/ Contains(question, Chars(severities[i]) \o Chars(" severity"))
        \/ with_vulnerabilities /\ Contains(question, Chars(severities[i]) \o Chars(" vulnerabilities"))
  IN IF \E i \in 1..Len(severities) : Asked(i)
     THEN CHOOSE i \in 1..Len(severities) : Asked(i) /\ \A j \in 1..(i - 1) : ~Asked(j)
     ELSE 0

\* df[df["severity_level"].str.lower() == level].
BySeverity(df, level) ==
  Table(df.cols,
        SelectRows(df.rows, [r \in Range(df.rows) |-> Lower(r["severity_level"]) = level]))

\* re.search(r'cve-\d{4}-\d{4,7}', q).group(), <<>> when nothing matches.
CveAsked(q) ==
  LET DigitsFrom(k, n) == k + n - 1 <= Len(q) /\ \A d \in 0..(n - 1) : IsDigit(q[k + d])
      starts == { i \in Occurrences(q, Chars("cve-")) :
                    /\ DigitsFrom(i + 4, 4)
                    /\ i + 8 <= Len(q) /\ q[i + 8] = "-"
                    /\ DigitsFrom(i + 9, 4) }
  IN IF starts = {} THEN <<>>
     ELSE LET i == CHOOSE m \in starts : \A n \in starts : m <= n
              more == CHOOSE n \in 4..7 :
                        DigitsFrom(i + 9, n) /\ (n = 7 \/ ~DigitsFrom(i + 9, n + 1))
          IN SubSeq(q, i, i + 8 + more)

\* re.search(r'details for\s+(https?://\S+)', q).group(1), <<>> when
\* nothing matches.
UrlAsked(q) ==
  LET Schemed(k) == \E scheme \in {Chars("http://"), Chars("https://")} :
                      /\ k + Len(scheme) <= Len(q)
                      /\ SubSeq(q, k, k + Len(scheme) - 1) = scheme
                      /\ ~IsSpace(q[k + Len(scheme)])
      starts == { i \in Occurrences(q, Chars("details for")) :
                    SkipSpaces(q, i + 11) > i + 11 /\ Schemed(SkipSpaces(q, i + 11)) }
  IN IF starts = {} THEN <<>>
     ELSE LET i == CHOOSE m \in starts : \A n \in starts : m <= n
              k == SkipSpaces(q, i + 11)
              e == CHOOSE n \in k..Len(q) :
                     /\ \A j \in k..n : ~IsSpace(q[j])
                     /\ n = Len(q) \/ IsSpace(q[n + 1])
          IN SubSeq(q, k, e)

\* Lines 65-73 and 75-83 of palo_alto_queries.py, for the phrase and the
\* column of either rule: the value of the first row whose unique_id is
\* the group of re.search(r'for\s+([A-Z0-9-]+)', q), <<>> when the phrase
\* is not in q, the pattern does not match or no row has the identifier.
VersionsOf(df, q, phrase, col) ==
  LET InClass(c) == IsDigit(c) \/ c = "-" \/ (LowerChar(c) # c)
      starts == { i \in Occurrences(q, Chars("for")) :
                    SkipSpaces(q, i + 3) > i + 3 /\ SkipSpaces(q, i + 3) <= Len(q)
                      /\ InClass(q[SkipSpaces(q, i + 3)]) }
      i == CHOOSE m \in starts : \A n \in starts : m <= n
      k == SkipSpaces(q, i + 3)
      e == CHOOSE n \in k..Len(q) :
             /\ \A j \in k..n : InClass(q[j])
             /\ n = Len(q) \/ ~InClass(q[n + 1])
      hits == { j \in 1..Len(df.rows) : Chars(df.rows[j]["unique_id"]) = SubSeq(q, k, e) }
  IN IF ~Contains(q, phrase) \/ starts = {} \/ hits = {} THEN <<>>
     ELSE <<df.rows[CHOOSE j \in hits : \A n \in hits : j <= n][col]>>

Missing(df, required_columns) == \E c \in required_columns : ~HasCol(df, c)

\* query_cisco_bot(question, df): every table the call may return.
query_cisco_bot(question, df) ==
  LET q == clean_text(question)
      dated == AssignCol(df, "last_updated",
                 [r \in Range(df.rows) |-> ToDatetime(r["last_updated"])])
  IN IF Missing(df, {"oem_name", "vulnerability", "severity", "url",
                     "last_updated", "severity_level"})
     THEN { ResponseFrame(MissingColumns) }
     ELSE IF IsLatest(q) THEN LatestByDate(dated, "last_updated", LatestN(q))
     ELSE IF SeverityAsked(q, TRUE) # 0
     THEN { BySeverity(dated, severities[SeverityAsked(q, TRUE)]) }
     ELSE IF AfterFor(q) # <<>> THEN { ByContains(dated, "vulnerability", AfterFor(q)) }
     ELSE IF UrlAsked(q) # <<>>
     THEN { Table(dated.cols,
                  SelectRows(dated.rows,
                    [r \in Range(dated.rows) |-> Chars(r["url"]) = UrlAsked(q)])) }
     ELSE IF Contains(q, Chars("after")) /\ AfterYear(q) # 0
     THEN { AfterCutoff(dated, "last_updated", AfterYear(q)) }
     ELSE { ResponseFrame(NotUnderstood) }

\* query_palo_alto_bot(question, df).
query_palo_alto_bot(question, df) ==
  LET q == clean_text(question)
      dated == AssignCol(df, "published_date",
                 [r \in Range(df.rows) |-> ToDatetime(r["published_date"])])
  IN IF Missing(df, {"product_name", "vulnerability", "published_date", "severity_level",
                     "unique_id", "affected_versions", "unaffected_versions"})
     THEN { ResponseFrame(MissingColumns) }
     ELSE IF IsLatest(q) THEN LatestByDate(dated, "published_date", LatestN(q))
     ELSE IF SeverityAsked(q, TRUE) # 0
     THEN { BySeverity(dated, severities[SeverityAsked(q, TRUE)]) }
     ELSE IF AfterFor(q) # <<>> THEN { ByContains(dated, "product_name", AfterFor(q)) }
     ELSE IF CveAsked(q) # <<>> THEN { ByContains(dated, "unique_id", CveAsked(q)) }
     ELSE IF Contains(q, Chars("after")) /\ AfterYear(q) # 0
     THEN { AfterCutoff(dated, "published_date", AfterYear(q)) }
     ELSE IF VersionsOf(dated, q, Chars("affected versions for"), "affected_versions") # <<>>
     THEN { Table(<<"Affected Versions">>,
                  <<[c \in {"Affected Versions"} |->
                       VersionsOf(dated, q, Chars("affected versions for"), "affected_versions")[1]]>>) }
     ELSE IF VersionsOf(dated, q, Chars("unaffected versions for"), "unaffected_versions") # <<>>
     THEN { Table(<<"Unaffected Versions">>,
                  <<[c \in {"Unaffected Versions"} |->
                       VersionsOf(dated, q, Chars("unaffected versions for"), "unaffected_versions")[1]]>>) }
     ELSE { ResponseFrame(NotUnderstood) }

\* df[cols]: the named columns only.
Project(df, cols) ==
  Table(cols, [k \in 1..Len(df.rows) |-> [c \in Range(cols) |-> df.rows[k][c]]])

\* question.split(): the maximal runs without white space.
RECURSIVE Words(_)
Words(q) ==
  LET s == Strip(q)
      cut == IF \E i \in 1..Len(s) : IsSpace(s[i])
             THEN CHOOSE i \in 1..Len(s) : IsSpace(s[i]) /\ \A j \in 1..(i - 1) : ~IsSpace(s[j])
             ELSE Len(s) + 1
  IN IF Len(s) = 0 THEN <<>>
     ELSE <<SubSeq(s, 1, cut - 1)>> \o Words(SubSeq(s, cut, Len(s)))

\* q.replace(pat, ""): every occurrence of pat taken out, left to right.
RECURSIVE Remove(_, _)
Remove(q, pat) ==
  IF Len(q) < Len(pat) THEN q
  ELSE IF SubSeq(q, 1, Len(pat)) = pat THEN Remove(SubSeq(q, Len(pat) + 1, Len(q)), pat)
  ELSE <<q[1]>> \o Remove(Tail(q), pat)

\* The loop over df["title"] of the three title rules: the rows of the first
\* title that is in the question, cut to cols; EmptyTable when the loop ends
\* without a return.
ByTitle(df, q, cols) ==
  LET Hit(k) == df.rows[k]["title"] # NaN /\ Contains(q, clean_text(Chars(df.rows[k]["title"])))
  IN IF \E k \in 1..Len(df.rows) : Hit(k)
     THEN LET k == CHOOSE m \in 1..Len(df.rows) : Hit(m) /\ \A n \in 1..(m - 1) : ~Hit(n)
          IN Project(Table(df.cols,
                           SelectRows(df.rows,
                             [r \in Range(df.rows) |-> r["title"] = df.rows[k]["title"]])),
                     cols)
     ELSE EmptyTable

\* query_nvidia_bot(question, df): every table the call may return.
query_nvidia_bot(question, df) ==
  LET q == clean_text(question)
      words == Words(q)
      IsNumber(w) == Len(w) > 0 /\ \A i \in 1..Len(w) : IsDigit(w[i])
      TitleRule(phrases, cols) ==
        (\E ph \in phrases : Contains(q, ph)) /\ ByTitle(df, q, cols) # EmptyTable
      keyword == Strip(Remove(Remove(q, Chars("show details of")), Chars("info about")))
  IN IF Missing(df, {"title", "bulletin_id", "severity", "cve_identifier(s)",
                     "publish_date", "last_updated", "url", "severity_level"})
     THEN { ResponseFrame(MissingColumns) }
     ELSE IF IsLatest(q) THEN LatestByText(df, "publish_date", LatestN(q))
     ELSE IF SeverityAsked(q, FALSE) # 0
     THEN { BySeverity(df, severities[SeverityAsked(q, FALSE)]) }
     ELSE IF TitleRule({Chars("cve for"), Chars("cves for")}, <<"title", "cve_identifier(s)">>)
     THEN { ByTitle(df, q, <<"title", "cve_identifier(s)">>) }
     ELSE IF TitleRule({Chars("publish date for")}, <<"title", "publish_date">>)
     THEN { ByTitle(df, q, <<"title", "publish_date">>) }
     ELSE IF TitleRule({Chars("last updated for")}, <<"title", "last_updated">>)
     THEN { ByTitle(df, q, <<"title", "last_updated">>) }
     ELSE IF /\ Contains(q, Chars("url for bulletin")) \/ Contains(q, Chars("link for bulletin"))
             /\ \E i \in 1..Len(words) : IsNumber(words[i])
     THEN LET i == CHOOSE m \in 1..Len(words) :
                     IsNumber(words[m]) /\ \A n \in 1..(m - 1) : ~IsNumber(words[n])
          IN { Project(Table(df.cols,
                             SelectRows(df.rows,
                               [r \in Range(df.rows) |-> Chars(r["bulletin_id"]) = words[i]])),
                       <<"bulletin_id", "url">>) }
     ELSE IF Contains(q, Chars("show details of")) \/ Contains(q, Chars("info about"))
     THEN { ByContains(df, "title", keyword) }
     ELSE IF Contains(q, Chars("search cve")) \/ Contains(q, Chars("find cve"))
     THEN { ByContains(ByContains(df, "cve_identifier(s)", Chars("cve-")),
                       "cve_identifier(s)", words[Len(words)]) }
     ELSE { ResponseFrame(NotUnderstood) }

(* ---------------------------- visualization --------------------------- *)
\* pd.to_datetime(..., format="%Y %b %d", errors="coerce") on one cell: a
\* text in another form becomes NaT.
ToDatetimeFormat(s) ==
  CASE s = "2025 May 08" -> "2025-05-08"
    [] s = "2025 May 07" -> "2025-05-07"
    [] OTHER -> NaT

\* What the visualization section (lines 448-518) leaves in the table object
\* it is handed, which is the stored one:
\*   visualize_cisco_data assigns last_updated in place;
\*   visualize_data (Intel, Adobe, Palo Alto) assigns the column names and
\*   published_date in place;
\*   visualize_nvidia_vulnerabilities assigns published_date in place when
\*   the table has that column;
\*   visualize_dell_vulnerabilities works on a copy.
Visualize(oem, df) ==
  IF df = NoneTable \/ IsEmpty(df) THEN df
  ELSE CASE oem = "Cisco" ->
              IF HasCol(df, "last_updated")
              THEN AssignCol(df, "last_updated",
                     [r \in Range(df.rows) |-> ToDatetimeFormat(r["last_updated"])])
              ELSE df
         [] oem = "Dell" -> df
         [] oem = "NVIDIA" ->
              IF HasCol(df, "published_date")
              THEN AssignCol(df, "published_date",
                     [r \in Range(df.rows) |-> DateCellToString(r["published_date"])])
              ELSE df
         [] OTHER ->
              LET named == RenameCols(df, [c \in Range(df.cols) |-> NormCol(c)])
              IN IF HasCol(named, "published_date")
                 THEN AssignCol(named, "published_date",
                        [r \in Range(named.rows) |-> ToDatetime(r["published_date"])])
                 ELSE named

\* send_vulnerability_report(user_email, df, ...): fillna / replace build
\* a new table for the attachment; the one handed in stays as it is.
ReportLeaves(df) == df

(* ------------------------------ chatbot -------------------------------- *)
\* Lines 539-542: the chatbot works on a copy of the stored table whose
\* date columns are forced to strings once more.
ChatCopy(df) == ForceDateStrings(df)

\* Lines 544-556: the renaming the NVIDIA route applies before the call.
NvidiaChatCol(c) ==
  CASE c = "title" -> "vulnerability"
    [] c = "bulletin_id" -> "oem_name"
    [] c = "severity" -> "severity_level"
    [] c = "cve_identifier(s)" -> "unique_id"
    [] c = "publish_date" -> "published_date"
    [] OTHER -> c

\* Lines 559-564: the renaming the Cisco route applies before the call.
CiscoChatCol(c) == IF c = "description" THEN "severity" ELSE c

\* Lines 543-568: the tables the Query button may put into result_df.
RouteQuery(oem, question, stored) ==
  LET df == ChatCopy(stored)
  IN CASE oem = "NVIDIA" ->
            query_nvidia_bot(question, RenameCols(df, [c \in Range(df.cols) |-> NvidiaChatCol(c)]))
       [] oem = "Palo Alto Networks" -> query_palo_alto_bot(question, df)
       [] oem = "Cisco" ->
            query_cisco_bot(question, RenameCols(df, [c \in Range(df.cols) |-> CiscoChatCol(c)]))
       [] OTHER -> { NoneTable }

\* Lines 570-575: a "could not understand" answer is shown as text and
\* leaves no result table.
HandleResponse(r) == IF r = ResponseFrame(NotUnderstood) THEN NoneTable ELSE r

\* The questions typed into the dashboard's input box.
AppQuestions == { Chars("Show latest 5 advisories"), Chars("critical severity"), Chars("hello") }

(* ------------------------------- state --------------------------------- *)
VARIABLES
  NVD_API_KEY,      \* utils.NVD_API_KEY: "" when no key is configured
  scan_triggered,   \* st.session_state["scan_triggered"]
  selected_oem,     \* st.session_state["selected_oem"] / the selectbox value
  scraped_data,     \* st.session_state["scraped_data"]
  severity_filter,  \* the multiselect value the last stored table was filtered by
  ui_message,       \* what the scan logic last reported: warning, error or success
  page,             \* the row nodes of the page the current run renders
  pc,               \* position of the current run
  driver,           \* the browser session: "none", "open" or "quit"
  temp_dir,         \* the temporary profile directory: "none", "exists", "removed"
  data,             \* the extractor's list of harvested records
  idx,              \* position of the row loop in the page
  attempt,          \* scrape_nvidia: the harvest attempt under way
  load_attempt,     \* scrape_palo_alto: the 'Load More' clicks made
  pending,          \* the exception in flight, NoExc when there is none
  result,           \* the table the extractor returns
  outcome,          \* how the run ended: "none" while running, "returned", "raised"
  events,           \* what went wrong in the environment during the run
  nvd,              \* the row loop's local nvd: the last enrichment result
  nvd_calls,        \* the identifiers HTTP requests went out for, in order
  nvd_resp,         \* enrichment harness: the exchange under test
  query,            \* the text in the chatbot's input box
  result_df,        \* the table the last chatbot query returned
  authenticated,    \* st.session_state["authenticated"]
  logged_out        \* Logout was triggered after the last successful login

vars ==
  <<NVD_API_KEY, scan_triggered, selected_oem, scraped_data, severity_filter,
    ui_message, page, pc, driver, temp_dir, data, idx, attempt, pending,
    result, outcome, events, nvd, nvd_calls, nvd_resp, query, result_df,
    authenticated, logged_out, load_attempt>>

session_vars == <<scan_triggered, selected_oem, scraped_data, severity_filter, ui_message>>
chat_vars == <<query, result_df>>
auth_vars == <<authenticated, logged_out>>
run_vars == <<page, driver, temp_dir, data, idx, attempt, load_attempt, pending, result, outcome, events, nvd, nvd_calls>>

NoNvd == NvdResult(NoExc, FALSE, UnknownTriple)
NoResponse == Response("none", "nokey", FALSE, FALSE, "absent", "absent", "absent", "nokey")

\* The frames the extractor of v returns for a page of the one node.
NodeFrames(v, node) ==
  LET out == HarvestNode(v, node, NoNvd)
  IN IF out.kind # "row" THEN {}
     ELSE IF v = "Palo Alto Networks" THEN PaloAltoFrames(<<out.row>>)
     ELSE { DataFrame(RawCols(v), <<out.row>>) }

Keys == {"", "key"}

\* No extractor run has started.
InitRun ==
  /\ page = <<>>
  /\ driver = "none"
  /\ temp_dir = "none"
  /\ data = <<>>
  /\ idx = 0
  /\ attempt = 0
  /\ load_attempt = 0
  /\ pending = NoExc
  /\ result = EmptyTable
  /\ outcome = "none"
  /\ events = {}
  /\ nvd = NoNvd
  /\ nvd_calls = <<>>

\* The state after the module-level init_state loop (lines 75-85) and a
\* successful login (lines 653-657), the Dashboard page selected.
InitSession ==
  /\ NVD_API_KEY \in Keys
  /\ scan_triggered = FALSE
  /\ selected_oem = "None"
  /\ scraped_data = NoneTable
  /\ severity_filter = severity_options
  /\ ui_message = "none"
  /\ query = <<>>
  /\ result_df = NoneTable
  /\ authenticated = TRUE
  /\ logged_out = FALSE
  /\ InitRun

Init ==
  /\ InitSession
  /\ pc = "idle"
  /\ nvd_resp = NoResponse

(* --------------------------- extractor steps --------------------------- *)
LoadMoreUncapped(n) == TRUE

\* `while load_attempt < max_load_attempts' (line 72).
LoadMoreLoops(n) == n < max_load_attempts

\* How a write of a diagnostic file (open(...) plus driver.page_source)
\* can end: written, open() raises OSError, page_source raises
\* WebDriverException.
DiagOutcomes == {"ok", "OSError", "WebDriver"}

\* The row loop's range: rows[:100] for Intel and Dell, all rows otherwise.
LoopEnd(v, p) == IF v \in {"Intel", "Dell"} THEN Min(Len(p), RowCap) ELSE Len(p)

\* The "Start Scan" button (lines 224-226) with the selectbox on some
\* vendor, whose page renders some sequence of row nodes.  The session
\* may be fresh or hold the table of an earlier scan.  The button is on
\* the Dashboard page, which line 120 renders for an authenticated session.
StartScan ==
  /\ pc = "idle"
  /\ authenticated
  /\ \E oem \in Vendors, p \in Pages :
       /\ selected_oem' = oem
       /\ page' = p
  /\ scan_triggered' = TRUE
  /\ pc' = "launch"
  /\ driver' = "none"
  /\ temp_dir' = "none"
  /\ data' = <<>>
  /\ idx' = 0
  /\ attempt' = 0
  /\ load_attempt' = 0
  /\ pending' = NoExc
  /\ result' = EmptyTable
  /\ outcome' = "none"
  /\ events' = {}
  /\ nvd' = NoNvd
  /\ nvd_calls' = <<>>
  /\ UNCHANGED <<NVD_API_KEY, scraped_data, severity_filter, ui_message, nvd_resp>>
  /\ UNCHANGED chat_vars
  /\ UNCHANGED auth_vars

\* setup_driver() / webdriver.Chrome(...): the session comes up ("ok"), or
\* the constructor raises WebDriverException, or the driver download
\* raises something else.  setup_driver removes its temporary directory
\* only in its `except WebDriverException' clause.
Launch ==
  /\ pc = "launch"
  /\ \E r \in {"ok", "WebDriver", "Exception"} :
       /\ temp_dir' = IF ~UsesSetupDriver(selected_oem) THEN "none"
                      ELSE IF r = "WebDriver" THEN "removed" ELSE "exists"
       /\ IF r = "ok"
          THEN /\ driver' = "open"
               /\ pc' = IF HasUserAgentOverride(selected_oem) THEN "ua" ELSE "await"
               /\ UNCHANGED <<pending, outcome, events>>
          ELSE /\ driver' = "none"
               /\ events' = events \cup {"launch_failed"}
               /\ pending' = r
               /\ IF LaunchInsideTry(selected_oem)
                  THEN pc' = "handler" /\ outcome' = outcome
                  ELSE pc' = "done" /\ outcome' = "raised"
  /\ UNCHANGED <<NVD_API_KEY, nvd_resp, page, data, idx, attempt, load_attempt, result, nvd, nvd_calls>>
  /\ UNCHANGED session_vars
  /\ UNCHANGED chat_vars
  /\ UNCHANGED auth_vars

\* driver.execute_cdp_cmd("Network.setUserAgentOverride", ...) of
\* scrape_cisco and scrape_intel, issued before the try block.
UserAgentOverride ==
  /\ pc = "ua"
  /\ \E ok \in BOOLEAN :
       IF ok
       THEN pc' = "await" /\ UNCHANGED <<pending, outcome, events>>
       ELSE /\ pc' = "done"
            /\ pending' = "WebDriver"
            /\ outcome' = "raised"
            /\ events' = events \cup {"ua_raised"}
  /\ UNCHANGED <<NVD_API_KEY, nvd_resp, page, driver, temp_dir, data, idx, attempt, load_attempt, result, nvd, nvd_calls>>
  /\ UNCHANGED session_vars
  /\ UNCHANGED chat_vars
  /\ UNCHANGED auth_vars

\* driver.get(url) and the vendor's wait for its load signal.  The signal
\* arrives ("ok"), the wait times out, or navigation raises.  For Cisco
\* and Palo Alto the signal is a repeated row, so it cannot arrive on a
\* page without rows.  On a timeout scrape_cisco first writes
\* cisco_error.html and re-raises; scrape_palo_alto falls back to a sleep
\* and raises Exception when the table is still missing; scrape_dell has
\* no wait, it sleeps and looks the per-page select up, whose absence
\* raises NoSuchElementException, a WebDriverException.
AwaitReady ==
  /\ pc = "await"
  /\ \E r \in {"ok", "Timeout", "WebDriver"}, d \in DiagOutcomes :
       /\ r = "ok" => d = "ok" /\ (WaitsForRows(selected_oem) => Len(page) > 0)
       /\ selected_oem = "Dell" => r # "Timeout"
       /\ (r # "Timeout" \/ selected_oem # "Cisco") => d = "ok"
       /\ IF r = "ok"
          THEN /\ pc' = IF selected_oem = "Palo Alto Networks" THEN "load_more" ELSE "harvest"
               /\ UNCHANGED <<pending, events>>
          ELSE /\ pc' = "handler"
               /\ pending' =
                    IF r = "WebDriver" THEN "WebDriver"
                    ELSE CASE selected_oem = "Cisco" -> IF d = "ok" THEN "Timeout" ELSE d
                           [] selected_oem = "Palo Alto Networks" -> "Exception"
                           [] OTHER -> "Timeout"
               /\ events' = events
                    \cup (IF r = "Timeout" THEN {"await_timed_out"} ELSE {"navigation_failed"})
                    \cup (IF d # "ok" THEN {"diagnostic_failed"} ELSE {})
  /\ UNCHANGED <<NVD_API_KEY, nvd_resp, page, driver, temp_dir, data, idx, attempt, load_attempt, result, outcome, nvd, nvd_calls>>
  /\ UNCHANGED session_vars
  /\ UNCHANGED chat_vars
  /\ UNCHANGED auth_vars

\* One evaluation of the while condition of the 'Load More' loop of
\* scrape_palo_alto (lines 69-85) and, where it holds, one pass of the
\* body: the button is found, displayed and clicked, time.sleep(5) lets
\* the page settle and load_attempt goes up; or the button is found but
\* not displayed, or find_element, is_displayed or click raises (the bare
\* except clause), and the loop is left.  The run goes on to Harvest.
LoadMore ==
  /\ pc = "load_more"
  /\ IF LoadMoreLoops(load_attempt)
     THEN \E r \in {"clicked", "not_displayed", "raised"} :
            IF r = "clicked"
            THEN load_attempt' = load_attempt + 1 /\ pc' = "load_more"
            ELSE load_attempt' = load_attempt /\ pc' = "harvest"
     ELSE load_attempt' = load_attempt /\ pc' = "harvest"
  /\ UNCHANGED <<NVD_API_KEY, nvd_resp, page, driver, temp_dir, data, idx, attempt, pending,
                 result, outcome, events, nvd, nvd_calls>>
  /\ UNCHANGED session_vars
  /\ UNCHANGED chat_vars
  /\ UNCHANGED auth_vars

\* The extractor writes a page snapshot before it locates the rows.
WritesSnapshot(v) == v \in {"Cisco", "Adobe", "Palo Alto Networks"}

\* The extractor has a `no rows' branch that writes a diagnostic file and
\* returns an empty table.
HasNoRowsBranch(v) == v \in {"Cisco", "Intel", "Dell"}

\* The snapshot and the row lookup between the wait and the row loop.
Harvest ==
  /\ pc = "harvest"
  /\ \E snap \in DiagOutcomes, d \in DiagOutcomes :
       /\ ~WritesSnapshot(selected_oem) => snap = "ok"
       /\ (snap # "ok" \/ ~HasNoRowsBranch(selected_oem) \/ Len(page) > 0) => d = "ok"
       /\ IF snap # "ok"
          THEN /\ pending' = snap
               /\ pc' = "handler"
               /\ events' = events \cup {"diagnostic_failed"}
               /\ UNCHANGED <<idx, attempt, result>>
          ELSE IF HasNoRowsBranch(selected_oem) /\ Len(page) = 0
          THEN IF d = "ok"
               THEN /\ result' = EmptyTable
                    /\ pc' = "finally"
                    /\ UNCHANGED <<pending, events, idx, attempt>>
               ELSE /\ pending' = d
                    /\ pc' = "handler"
                    /\ events' = events \cup {"diagnostic_failed"}
                    /\ UNCHANGED <<idx, attempt, result>>
          ELSE /\ pc' = "rows"
               /\ idx' = 1
               /\ attempt' = 1
               /\ UNCHANGED <<pending, events, result>>
  /\ UNCHANGED <<NVD_API_KEY, nvd_resp, page, load_attempt, driver, temp_dir, data, outcome, nvd, nvd_calls>>
  /\ UNCHANGED session_vars
  /\ UNCHANGED chat_vars
  /\ UNCHANGED auth_vars

\* One pass of the row loop over page[idx].  For Cisco, Intel and Dell a
\* row with a CVE identifier is looked up (the service answers `resp').
\* In scrape_nvidia a stale element ends the attempt: the next attempt
\* re-reads the rows from the top with `data' as it is, and after the
\* last attempt the loop is given up and `data' returned.
HarvestRow ==
  /\ pc = "rows"
  /\ idx <= LoopEnd(selected_oem, page)
  /\ \E resp \in RunResponses, stale \in BOOLEAN :
       LET node == page[idx]
           pre == HarvestNode(selected_oem, node, NoNvd)
           looked == CallsNvd(selected_oem) /\ pre.kind = "row" /\ pre.cve_id # NA
           got == RowLookup(pre.cve_id, NVD_API_KEY, resp)
           out == HarvestNode(selected_oem, node, got)
       IN /\ stale => selected_oem = "NVIDIA"
          /\ ~looked => resp = CHOOSE x \in RunResponses : TRUE
          /\ IF stale
             THEN /\ events' = events \cup {"stale"}
                  /\ IF attempt < max_attempts
                     THEN attempt' = attempt + 1 /\ idx' = 1 /\ pc' = "rows"
                     ELSE attempt' = attempt /\ idx' = LoopEnd(selected_oem, page) + 1 /\ pc' = "rows"
                  /\ UNCHANGED <<data, pending, nvd, nvd_calls>>
             ELSE IF pre.kind = "raise"
             THEN /\ pending' = pre.exc
                  /\ pc' = "handler"
                  /\ events' = events \cup {"field_raised"}
                  /\ UNCHANGED <<data, idx, attempt, nvd, nvd_calls>>
             ELSE IF pre.kind = "skip"
             THEN /\ idx' = idx + 1
                  /\ UNCHANGED <<pc, data, attempt, pending, events, nvd, nvd_calls>>
             ELSE /\ nvd' = IF CallsNvd(selected_oem) THEN got ELSE nvd
                  /\ nvd_calls' = IF looked /\ got.requested
                                  THEN Append(nvd_calls, pre.cve_id) ELSE nvd_calls
                  /\ IF looked /\ got.raised # NoExc
                     THEN /\ pending' = "Exception"
                          /\ pc' = "handler"
                          /\ UNCHANGED <<data, idx>>
                     ELSE /\ data' = Append(data, out.row)
                          /\ idx' = idx + 1
                          /\ UNCHANGED <<pc, pending>>
                  /\ UNCHANGED <<attempt, events>>
  /\ UNCHANGED <<NVD_API_KEY, nvd_resp, page, load_attempt, driver, temp_dir, result, outcome>>
  /\ UNCHANGED session_vars
  /\ UNCHANGED chat_vars
  /\ UNCHANGED auth_vars

\* The end of the row loop: the frame is built and returned.  Only
\* scrape_palo_alto post-processes it (sort, drop_duplicates, to_datetime,
\* sort, to_csv); scrape_adobe builds it after its finally clause.
FinishHarvest ==
  /\ pc = "rows"
  /\ idx > LoopEnd(selected_oem, page)
  /\ IF selected_oem = "Palo Alto Networks"
     THEN \E df \in PaloAltoFrames(data), csv \in {"ok", "OSError"} :
            /\ Len(data) = 0 => csv = "ok"
            /\ IF csv = "ok"
               THEN result' = df /\ pc' = "finally" /\ UNCHANGED <<pending, events>>
               ELSE /\ pending' = csv
                    /\ pc' = "handler"
                    /\ events' = events \cup {"diagnostic_failed"}
                    /\ UNCHANGED result
     ELSE /\ result' = DataFrame(RawCols(selected_oem), data)
          /\ pc' = "finally"
          /\ UNCHANGED <<pending, events>>
  /\ UNCHANGED <<NVD_API_KEY, nvd_resp, page, driver, temp_dir, data, idx, attempt, load_attempt, outcome, nvd, nvd_calls>>
  /\ UNCHANGED session_vars
  /\ UNCHANGED chat_vars
  /\ UNCHANGED auth_vars

\* What the outer except clause hands back once it has caught: the rows
\* gathered so far for Palo Alto and Adobe, an empty table otherwise.
HandlerResult(v, d) ==
  IF v \in {"Palo Alto Networks", "Adobe"} THEN DataFrame(RawCols(v), d) ELSE EmptyTable

\* The extractor's outer except clause on the exception in flight: not
\* caught, it stays in flight; caught, the clause writes its diagnostic
\* file (Cisco, Intel, Dell), which may raise in turn, and returns.
Handler ==
  /\ pc = "handler"
  /\ \E d \in DiagOutcomes :
       /\ (~Caught(selected_oem, pending) \/ ~HandlerWritesDiagnostic(selected_oem)
             \/ driver = "none") => d = "ok"
       /\ IF ~Caught(selected_oem, pending)
          THEN UNCHANGED <<pending, result, events>>
          ELSE IF d = "ok"
          THEN /\ pending' = NoExc
               /\ result' = HandlerResult(selected_oem, data)
               /\ UNCHANGED events
          ELSE /\ pending' = d
               /\ events' = events \cup {"diagnostic_failed"}
               /\ UNCHANGED result
  /\ pc' = "finally"
  /\ UNCHANGED <<NVD_API_KEY, nvd_resp, page, driver, temp_dir, data, idx, attempt, load_attempt, outcome, nvd, nvd_calls>>
  /\ UNCHANGED session_vars
  /\ UNCHANGED chat_vars
  /\ UNCHANGED auth_vars

\* The finally clause: driver.quit() and, for the setup_driver vendors,
\* shutil.rmtree(temp_dir) after it.  scrape_palo_alto quits only a
\* session it has.  An exception of quit() leaves the clause at once.
Cleanup ==
  /\ pc = "finally"
  /\ \E q \in {"ok", "raise"} :
       /\ driver = "none" => q = "ok"
       /\ IF driver = "none"
          THEN UNCHANGED <<driver, temp_dir, pending, events>>
          ELSE IF q = "ok"
          THEN /\ driver' = "quit"
               /\ temp_dir' = IF UsesSetupDriver(selected_oem) THEN "removed" ELSE temp_dir
               /\ UNCHANGED <<pending, events>>
          ELSE /\ pending' = "WebDriver"
               /\ events' = events \cup {"quit_raised"}
               /\ UNCHANGED <<driver, temp_dir>>
       /\ outcome' = IF pending' # NoExc THEN "raised" ELSE "returned"
       /\ result' = IF pending' # NoExc THEN EmptyTable ELSE result
  /\ pc' = "done"
  /\ UNCHANGED <<NVD_API_KEY, nvd_resp, page, data, idx, attempt, load_attempt, nvd, nvd_calls>>
  /\ UNCHANGED session_vars
  /\ UNCHANGED chat_vars
  /\ UNCHANGED auth_vars

(* ------------------------------ scan logic ----------------------------- *)
\* Lines 236-403 once the extractor has ended, with the severity
\* multiselect on `filter': an exception is reported as an error, an empty
\* table as a warning, and anything else is normalised, filtered and
\* stored; scan_triggered is reset in every case.  The script run then
\* goes on to the sections below the scan logic (pc = "render").
ScanLogic(filter) ==
  /\ pc = "done"
  /\ IF outcome = "raised"
     THEN ui_message' = "error" /\ UNCHANGED <<scraped_data, severity_filter>>
     ELSE IF IsEmpty(result)
     THEN ui_message' = "warning" /\ UNCHANGED <<scraped_data, severity_filter>>
     ELSE /\ scraped_data' = Normalize(selected_oem, result, filter)
          /\ severity_filter' = filter
          /\ ui_message' = "success"
  /\ scan_triggered' = FALSE
  /\ pc' = "render"
  /\ UNCHANGED <<NVD_API_KEY, nvd_resp, selected_oem>>
  /\ UNCHANGED run_vars
  /\ UNCHANGED chat_vars
  /\ UNCHANGED auth_vars

\* The rest of the script run of a scan (lines 405-630): the table in
\* session state, if any, is shown and charted for the selected vendor.
Display ==
  /\ pc = "render"
  /\ scraped_data' = Visualize(selected_oem, scraped_data)
  /\ pc' = "shown"
  /\ UNCHANGED <<NVD_API_KEY, nvd_resp, scan_triggered, selected_oem, severity_filter, ui_message>>
  /\ UNCHANGED run_vars
  /\ UNCHANGED chat_vars
  /\ UNCHANGED auth_vars

\* A later script run while a table is stored, started by the Email Report
\* button or by the Query button with a question typed in: the report is
\* sent from the stored table, the charts are drawn again, and the
\* question is routed to the vendor's query function.
Rerun ==
  /\ pc = "shown"
  /\ scraped_data # NoneTable
  /\ \E click \in {"email", "query"} :
       LET sent == IF click = "email" THEN ReportLeaves(scraped_data) ELSE scraped_data
           charted == Visualize(selected_oem, sent)
       IN /\ scraped_data' = charted
          /\ IF click = "query"
             THEN \E q \in AppQuestions :
                    /\ query' = q
                    /\ \E r \in RouteQuery(selected_oem, q, charted) :
                         result_df' = HandleResponse(r)
             ELSE UNCHANGED chat_vars
  /\ UNCHANGED <<NVD_API_KEY, nvd_resp, pc, scan_triggered, selected_oem, severity_filter, ui_message>>
  /\ UNCHANGED run_vars
  /\ UNCHANGED auth_vars

Next ==
  \/ StartScan
  \/ Launch
  \/ UserAgentOverride
  \/ AwaitReady
  \/ LoadMore
  \/ Harvest
  \/ HarvestRow
  \/ FinishHarvest
  \/ Handler
  \/ Cleanup
  \/ \E filter \in Filters : ScanLogic(filter)
  \/ Display
  \/ Rerun

Spec == Init /\ [][Next]_vars

(* ----------------------------- authentication -------------------------- *)
\* authentication.is_authenticated (lines 83-92).
is_authenticated == authenticated

\* The Login button (lines 647-664), shown while the session is not
\* authenticated: login() returns the user's data, returns None, or raises
\* RequestException; only the first sets the session keys.
Login ==
  /\ pc \in {"idle", "shown"}
  /\ ~is_authenticated
  /\ \E user_data \in {"data", "None", "RequestException"} :
       IF user_data = "data"
       THEN authenticated' = TRUE /\ logged_out' = FALSE
       ELSE UNCHANGED auth_vars
  /\ UNCHANGED <<NVD_API_KEY, nvd_resp, pc>>
  /\ UNCHANGED session_vars
  /\ UNCHANGED run_vars
  /\ UNCHANGED chat_vars

\* The Logout button (lines 121 and 666), shown while the session is
\* authenticated: its on_click callback is authentication.logout (lines
\* 75-81), whose body is `pass'; the script then runs again.
Logout ==
  /\ pc \in {"idle", "shown"}
  /\ is_authenticated
  /\ logged_out' = TRUE
  /\ UNCHANGED authenticated
  /\ UNCHANGED <<NVD_API_KEY, nvd_resp, pc>>
  /\ UNCHANGED session_vars
  /\ UNCHANGED run_vars
  /\ UNCHANGED chat_vars

\* The state after the module-level init_state loop (lines 75-85).
InitAuth ==
  /\ NVD_API_KEY \in Keys
  /\ scan_triggered = FALSE
  /\ selected_oem = "None"
  /\ scraped_data = NoneTable
  /\ severity_filter = severity_options
  /\ ui_message = "none"
  /\ query = <<>>
  /\ result_df = NoneTable
  /\ authenticated = FALSE
  /\ logged_out = FALSE
  /\ InitRun
  /\ pc = "idle"
  /\ nvd_resp = NoResponse

NextAuth == Login \/ Logout \/ Next

SpecAuth == InitAuth /\ [][NextAuth]_vars

(* ------------------------------ second scan --------------------------- *)
\* A session that already holds the table of a Dell scan, shown, with the
\* next scan about to be started.
InitRescan ==
  /\ NVD_API_KEY \in Keys
  /\ scan_triggered = FALSE
  /\ selected_oem = "Dell"
  /\ scraped_data \in { Normalize("Dell", f, severity_options) :
                          f \in NodeFrames("Dell", CHOOSE n \in NodeKinds : n.bid = "5630") }
  /\ severity_filter = severity_options
  /\ ui_message = "success"
  /\ query = <<>>
  /\ result_df = NoneTable
  /\ authenticated = TRUE
  /\ logged_out = FALSE
  /\ InitRun
  /\ pc = "idle"
  /\ nvd_resp = NoResponse

SpecRescan == InitRescan /\ [][Next]_vars

(* ----------------------- enrichment client harness --------------------- *)
\* fetch_nvd_data on its own: every key setting against every exchange.
InitNvd ==
  /\ InitSession
  /\ pc = "nvd_call"
  /\ nvd_resp \in Responses

NvdLookup ==
  /\ pc = "nvd_call"
  /\ nvd' = fetch_nvd_data(NVD_API_KEY, nvd_resp)
  /\ nvd_calls' = IF nvd'.requested THEN Append(nvd_calls, "CVE-A") ELSE nvd_calls
  /\ pc' = "nvd_done"
  /\ UNCHANGED <<NVD_API_KEY, nvd_resp, page, driver, temp_dir, data, idx, attempt, load_attempt,
                 pending, result, outcome, events>>
  /\ UNCHANGED session_vars
  /\ UNCHANGED chat_vars
  /\ UNCHANGED auth_vars

NextNvd == NvdLookup

SpecNvd == InitNvd /\ [][NextNvd]_vars

(* ------------------------- query function harness --------------------- *)
\* The query functions on their own: every question against tables of
\* stored rows of the vendor, some longer than five and than ten rows.
QueryVendors == {"Cisco", "Palo Alto Networks", "NVIDIA"}

\* The table the query function of v is handed for a stored table: the
\* chatbot's copy, with the description column under the name severity
\* for Cisco.
QueryArg(v, stored) ==
  LET df == ChatCopy(stored)
  IN IF v = "Cisco" THEN RenameCols(df, [c \in Range(df.cols) |-> CiscoChatCol(c)]) ELSE df

\* The row r with the identifiers of the documented questions in place of
\* its own (the advisories of the query modules' example data).
DocumentedRows(v, r) ==
  CASE v = "Palo Alto Networks" ->
         { [r EXCEPT !["unique_id"] = "CVE-2025-0128", !["vulnerability"] = "CVE-2025-0128",
                     !["product_name"] = "PAN-OS", !["affected_versions"] = "< 11.1.2"],
           [r EXCEPT !["unique_id"] = "PAN-SA-2025-0008", !["vulnerability"] = "PAN-SA-2025-0008",
                     !["product_name"] = "Prisma Access Browser",
                     !["affected_versions"] = "< 132.83"] }
    [] v = "Cisco" ->
         { [r EXCEPT !["url"] = "https://cisco/sa-1", !["vulnerability"] = "Cisco IOS XE Software Flaw"],
           [r EXCEPT !["url"] = "https://cisco/sa-2"] }
    [] OTHER -> {}

\* The tables put to the query function of v: rows the scans of one-node
\* pages store and the documented rows, repeated in turn up to the sizes
\* below.
QueryTables(v) ==
  LET args == { QueryArg(v, Normalize(v, f, severity_options)) :
                  f \in UNION { NodeFrames(v, n) : n \in NodeKinds } }
      cols == (CHOOSE t \in args : TRUE).cols
      scanned == UNION { Range(t.rows) : t \in args }
      rows == scanned \cup DocumentedRows(v, CHOOSE r \in scanned : r["url"] # NA)
      Cycle(base, n) == [i \in 1..n |-> base[((i - 1) % Len(base)) + 1]]
  IN { Table(cols, Cycle(base, n)) :
         base \in SeqsUpTo(rows, 2) \ { <<>> }, n \in {0, 1, 2, 6, MaxTable} }

QueryFunction(v, question, df) ==
  CASE v = "Cisco" -> query_cisco_bot(question, df)
    [] v = "Palo Alto Networks" -> query_palo_alto_bot(question, df)
    [] v = "NVIDIA" -> query_nvidia_bot(question, df)

InitQuery ==
  /\ NVD_API_KEY = ""
  /\ scan_triggered = FALSE
  /\ \E v \in QueryVendors :
       /\ selected_oem = v
       /\ scraped_data \in QueryTables(v)
  /\ severity_filter = severity_options
  /\ ui_message = "success"
  /\ query \in Questions
  /\ result_df = NoneTable
  /\ authenticated = TRUE
  /\ logged_out = FALSE
  /\ InitRun
  /\ pc = "ask"
  /\ nvd_resp = NoResponse

\* One call of the vendor's query function on the table.
AskBot ==
  /\ pc = "ask"
  /\ result_df' \in QueryFunction(selected_oem, query, scraped_data)
  /\ pc' = "answered"
  /\ UNCHANGED <<NVD_API_KEY, nvd_resp, query>>
  /\ UNCHANGED session_vars
  /\ UNCHANGED run_vars
  /\ UNCHANGED auth_vars

NextQuery == AskBot

SpecQuery == InitQuery /\ [][NextQuery]_vars

(* --------------------------- CVSS cell harness ------------------------- *)
\* The texts a CVSS cell is tried with: every score d.d, and texts around
\* the edges of what float() accepts.
CvssCells ==
  { <<Chars("0123456789")[a], ".", Chars("0123456789")[b]>> : a, b \in 1..10 }
    \cup { Chars("I"), Chars("i"), Chars("n/a"), Chars("nan"), Chars("inf"), <<>>,
           <<"1", "0", ".", "0">>, <<"-", "1", ".", "0">>, <<"9">>, <<"9", ".">>,
           <<".", "5">>, <<"1", ".", "2", ".", "3">>, <<"N", "a", "N">>, <<"I", "I">> }

\* scrape_palo_alto at its row loop, on a page of one row with the cell.
InitCvss ==
  /\ NVD_API_KEY = ""
  /\ scan_triggered = TRUE
  /\ selected_oem = "Palo Alto Networks"
  /\ scraped_data = NoneTable
  /\ severity_filter = severity_options
  /\ ui_message = "none"
  /\ query = <<>>
  /\ result_df = NoneTable
  /\ authenticated = TRUE
  /\ logged_out = FALSE
  /\ \E cell \in CvssCells :
       page = <<Node("ok", "ok", "CVE-A overflow", "Critical", cell, "CVE-A", "5630",
                     "2025-05-08", "2025-05-08")>>
  /\ driver = "none"
  /\ temp_dir = "none"
  /\ data = <<>>
  /\ idx = 1
  /\ attempt = 0
  /\ load_attempt = 0
  /\ pending = NoExc
  /\ result = EmptyTable
  /\ outcome = "none"
  /\ events = {}
  /\ nvd = NoNvd
  /\ nvd_calls = <<>>
  /\ pc = "cvss"
  /\ nvd_resp = NoResponse

\* One pass of the row loop (lines 127-175).
ClassifyCvss ==
  /\ pc = "cvss"
  /\ data' = Append(data, PaloAltoRow(page[idx]).row)
  /\ idx' = idx + 1
  /\ pc' = "cvss_done"
  /\ UNCHANGED <<NVD_API_KEY, nvd_resp, page, driver, temp_dir, attempt, load_attempt, pending, result,
                 outcome, events, nvd, nvd_calls>>
  /\ UNCHANGED session_vars
  /\ UNCHANGED chat_vars
  /\ UNCHANGED auth_vars

SpecCvss == InitCvss /\ [][ClassifyCvss]_vars

(* ---------------------------- long-page harness ------------------------ *)
\* An extractor at the top of its row loop (the session open, the load
\* signal seen) on a rendered page of RowCap + 1 row nodes of one kind
\* whose rows need no lookup.  scrape_palo_alto is left out: its
\* drop_duplicates brings the rows of one kind down to one.
InitCap ==
  /\ NVD_API_KEY = ""
  /\ scan_triggered = TRUE
  /\ scraped_data = NoneTable
  /\ severity_filter = severity_options
  /\ ui_message = "none"
  /\ query = <<>>
  /\ result_df = NoneTable
  /\ authenticated = TRUE
  /\ logged_out = FALSE
  /\ \E v \in Vendors \ {"Palo Alto Networks"}, node \in NodeKinds :
       /\ selected_oem = v
       /\ page = [i \in 1..(RowCap + 1) |-> node]
       /\ LET pre == HarvestNode(v, node, NoNvd)
          IN ~(CallsNvd(v) /\ pre.kind = "row" /\ pre.cve_id # NA)
       /\ temp_dir = IF UsesSetupDriver(v) THEN "exists" ELSE "none"
  /\ driver = "open"
  /\ data = <<>>
  /\ idx = 1
  /\ attempt = 1
  /\ load_attempt = 0
  /\ pending = NoExc
  /\ result = EmptyTable
  /\ outcome = "none"
  /\ events = {}
  /\ nvd = NoNvd
  /\ nvd_calls = <<>>
  /\ pc = "rows"
  /\ nvd_resp = NoResponse

\* The run from its row loop to its end.
NextCap == HarvestRow \/ FinishHarvest \/ Handler \/ Cleanup

SpecCap == InitCap /\ [][NextCap]_vars

(* ======================================================================= *)
(*                               the claims                                 *)
(* ======================================================================= *)
RunEnded == pc = "done"

\* The run got its session from the launch step.
SessionAcquired == "launch_failed" \notin events

\* C1: in scrape_cisco, scrape_intel and scrape_nvidia, once setup_driver
\* has returned a session and its temporary profile directory, every exit
\* of the run leaves the session quit and the directory removed.
C1_SessionReleasedOnEveryExit ==
  (RunEnded /\ UsesSetupDriver(selected_oem) /\ SessionAcquired)
    => (driver = "quit" /\ temp_dir = "removed")

\* C2: when the wait for the vendor's load signal times out, the run
\* returns an empty table and no exception reaches the caller, also when
\* capturing the diagnostic snapshot fails.  (Stated for the runs whose
\* driver.quit() succeeds, so that what refutes it is the timeout path.)
C2_TimeoutReturnsEmpty ==
  (RunEnded /\ "await_timed_out" \in events /\ "quit_raised" \notin events)
    => (outcome = "returned" /\ IsEmpty(result))

\* C3: when the browser session cannot be launched, the extractor returns
\* an empty table to its caller instead of raising.
C3_LaunchFailureReturnsEmpty ==
  (RunEnded /\ "launch_failed" \in events)
    => (outcome = "returned" /\ IsEmpty(result))

\* The run reached the page and its cleanup went through: nothing but
\* the page content and the diagnostic files decides how it ends.
PageReached ==
  events \cap {"launch_failed", "ua_raised", "navigation_failed", "quit_raised", "stale"} = {}

\* C4: when the page holds no node matching the vendor's row selector,
\* the extractor returns an empty table without raising, and the scan
\* logic reports the 'no data' warning, raises no error and ends with
\* scan_triggered reset to False.
C4_NoRowsIsNoData ==
  /\ (RunEnded /\ Len(page) = 0 /\ PageReached)
       => (outcome = "returned" /\ IsEmpty(result))
  /\ (pc = "render" /\ Len(page) = 0 /\ PageReached)
       => (ui_message = "warning" /\ scan_triggered = FALSE)

\* The column an extractor puts the advisory title in.
TitleCol(v) == IF v \in {"NVIDIA", "Adobe"} THEN "Title" ELSE "Vulnerability"

\* `row' is the record of `node': it carries the node's title (or the
\* fallback of a missing title link), or it is the record deduplication
\* kept for the node's identifier.
Represents(v, row, node) ==
  \/ row[TitleCol(v)] \in {node.title, NA, "Unknown"}
  \/ v = "Palo Alto Networks" /\ row["Unique ID"] = SummaryId(node.title)

\* C5: a missing or unreadable sub-field of a matched row node degrades
\* that field only: the row is in the output, and so are the rows before
\* and after it.  (Stated for the runs in which nothing else went wrong.)
C5_MissingFieldKeepsRows ==
  (RunEnded /\ events \subseteq {"field_raised"})
    => /\ outcome = "returned"
       /\ \A i \in 1..Len(page) :
            \E k \in 1..Len(result.rows) : Represents(selected_oem, result.rows[k], page[i])

\* The exchange is one of the failures the claim lists: a network error,
\* an HTTP error status, a body that is no JSON, no record, or a record
\* lacking a key the function indexes.
FailedExchange(resp) ==
  \/ resp.status # "ok"
  \/ resp.vulns # "one"
  \/ ~resp.cve \/ ~resp.metrics
  \/ resp.v31 = "emptylist"
  \/ resp.descriptions = "nokey"

\* C6: fetch_nvd_data never raises; without an API key it returns the
\* unknown triple and issues no HTTP request; on a network error, an HTTP
\* error status, malformed or incomplete JSON or an absent record it
\* returns the unknown triple.
C6_FetchNvdFailsSoft ==
  pc = "nvd_done"
    => /\ nvd.raised = NoExc
       /\ NVD_API_KEY = "" => (~nvd.requested /\ nvd_calls = <<>> /\ nvd.triple = UnknownTriple)
       /\ FailedExchange(nvd_resp) => nvd.triple = UnknownTriple

C6_Witness ==
  /\ pc = "nvd_done"
  /\ NVD_API_KEY # ""
  /\ nvd_resp.status = "ok" /\ nvd_resp.vulns = "one" /\ nvd_resp.cve /\ ~nvd_resp.metrics
  /\ nvd.requested
  /\ nvd.triple = UnknownTriple

Stored == scraped_data # NoneTable

\* C7 as stated: every row of the stored table has a severity that is,
\* case-insensitively, one of Critical, High, Medium, Low, Informational,
\* Unknown.
C7_SeverityInEnumWithUnknown ==
  Stored => \A k \in 1..Len(scraped_data.rows) :
              Lower(scraped_data.rows[k]["severity_level"])
                \in {"critical", "high", "medium", "low", "informational", "unknown"}

\* C7 amended: every row of the stored table has a severity_level that is
\* one of critical, high, medium, low, informational or n/a, the token the
\* code uses for an unknown severity; never raw vendor text or a missing
\* value.
C7_SeverityInEnumWithNA ==
  Stored => /\ HasCol(scraped_data, "severity_level")
            /\ \A k \in 1..Len(scraped_data.rows) :
                 scraped_data.rows[k]["severity_level"]
                   \in {"critical", "high", "medium", "low", "informational", "n/a"}

C7_Witness ==
  /\ Stored
  /\ selected_oem = "NVIDIA"
  /\ \E k \in 1..Len(result.rows) : result.rows[k]["Severity"] = "NVIDIA products are not affected"
  /\ \E k \in 1..Len(scraped_data.rows) : scraped_data.rows[k]["severity_level"] = "n/a"

\* C8: no two rows of the stored table share the same present identifier.
C8_IdentifiersUnique ==
  (Stored /\ HasCol(scraped_data, "unique_id"))
    => \A i, j \in 1..Len(scraped_data.rows) :
         (i # j /\ scraped_data.rows[i]["unique_id"] = scraped_data.rows[j]["unique_id"])
           => scraped_data.rows[i]["unique_id"] = NA

CountWithoutId(rows) == Cardinality({ k \in 1..Len(rows) : rows[k]["Unique ID"] = NA })

\* C9: rows without an identifier are never merged: each harvested row
\* whose identifier is the 'N/A' placeholder is in the returned table.
C9_RowsWithoutIdKept ==
  (RunEnded /\ events = {} /\ outcome = "returned" /\ HasCol(result, "Unique ID"))
    => CountWithoutId(result.rows) = CountWithoutId(data)

DateCols == {"published_date", "last_updated", "publish_date", "posted", "updated"}

\* C10: in the stored table every date cell is a date or the 'N/A'
\* sentinel: a missing, empty or unparseable date never shows as an empty
\* string, as raw text or as the text of a null value.
C10_UnknownDateIsSentinel ==
  Stored => \A k \in 1..Len(scraped_data.rows), c \in DateCols :
              HasCol(scraped_data, c)
                => (scraped_data.rows[k][c] = NA \/ DateOrd(scraped_data.rows[k][c]) > 0)


\* The column the latest rule of the vendor's query function sorts by.
LatestCol(v) ==
  CASE v = "Cisco" -> "last_updated"
    [] v = "Palo Alto Networks" -> "published_date"
    [] v = "NVIDIA" -> "publish_date"

\* The calendar date a date cell stands for, 0 when it stands for none.
CalendarDay(cell) == DateOrd(ToDatetime(cell))

\* C11: for a question containing 'latest' or 'recent', each query
\* function returns min(N, size) rows of the table, N being 10 when the
\* question contains '10' and 5 otherwise, ordered by calendar date from
\* the newest to the oldest, the rows without a known date after all rows
\* with one.
C11_LatestNewestFirst ==
  (pc = "answered" /\ IsLatest(clean_text(query))) =>
    LET N == IF Contains(clean_text(query), Chars("10")) THEN 10 ELSE 5
        col == LatestCol(selected_oem)
        rows == result_df.rows
    IN /\ Len(rows) = Min(N, Len(scraped_data.rows))
       /\ \A i \in 1..Len(rows) : \E r \in Range(scraped_data.rows) :
            rows[i] \in { [r EXCEPT ![col] = x] : x \in {r[col], ToDatetime(r[col])} }
       /\ \A i, j \in 1..Len(rows) :
            i < j => CalendarDay(rows[i][col]) >= CalendarDay(rows[j][col])

\* The levels a question names with 'L severity' or 'L vulnerabilities'.
LevelsNamed(q) ==
  { i \in 1..Len(severities) :
      Contains(q, Chars(severities[i]) \o Chars(" severity")) \/ Contains(q, Chars(severities[i]) \o Chars(" vulnerabilities")) }

\* C12: for a question that names one level L as 'L severity' or
\* 'L vulnerabilities' and is not taken by the latest rule, the result is
\* exactly the rows of the table whose severity_level is L whatever the
\* case, in the table's order (the date cell may be held as a timestamp).
C12_SeverityQuestionFiltersByLevel ==
  (pc = "answered" /\ ~IsLatest(clean_text(query))
     /\ Cardinality(LevelsNamed(clean_text(query))) = 1) =>
    LET L == severities[CHOOSE i \in LevelsNamed(clean_text(query)) : TRUE]
        col == LatestCol(selected_oem)
        expected == SelectRows(scraped_data.rows,
                      [r \in Range(scraped_data.rows) |-> Lower(r["severity_level"]) = L])
    IN /\ result_df.cols = scraped_data.cols
       /\ Len(result_df.rows) = Len(expected)
       /\ \A i \in 1..Len(expected) :
            result_df.rows[i] \in
              { [expected[i] EXCEPT ![col] = x] : x \in {expected[i][col], ToDatetime(expected[i][col])} }


\* C13: within one extractor run the enrichment client is asked at most
\* once for each distinct identifier: no identifier is looked up twice.
C13_OneLookupPerIdentifier ==
  \A i, j \in 1..Len(nvd_calls) : nvd_calls[i] = nvd_calls[j] => i = j


\* C14: when a scan has completed, with rows, with an empty result or
\* with an error, the table held in session state is the normalised result
\* of that scan for the selected vendor, or there is none: rows of an
\* earlier scan are not held any more.
C14_StoredTableIsOfLastScan ==
  pc = "render" =>
    \/ scraped_data = NoneTable
    \/ /\ outcome = "returned"
       /\ ~IsEmpty(result)
       /\ scraped_data = Normalize(selected_oem, result, severity_filter)


\* C15: once the scan logic has stored the normalised table, no chart
\* rendering, report send or chatbot query changes it: its column names
\* and cells after the step are those before the step.
C15_StoredTableNotModified ==
  [][(pc \in {"render", "shown"}) => (scraped_data' = scraped_data)]_vars


\* The extractor's columns that hold dates.
RawDateCols == {"Published Date", "Last Updated", "Posted", "Updated"}

\* r is the extractor's record x with normalised column names, the
\* severity x carries up to letter case, and dates in whatever form.
KeepsExtractorSeverity(r, x) ==
  /\ r["severity_level"] = Lower(x["Severity Level"])
  /\ \A c \in Range(result.cols) \ (RawDateCols \cup {"Severity Level"}) : r[NormCol(c)] = x[c]

\* C16: for the vendors whose extractor sets Severity Level (Palo Alto
\* Networks, Adobe), every row of the stored table carries the severity
\* of the extractor's record it comes from, up to letter case, and it
\* still does after the charts were drawn and after chatbot queries, as
\* does every row a query returns.
C16_ExtractorSeverityKept ==
  (pc \in {"render", "shown"} /\ ui_message = "success"
     /\ selected_oem \in {"Palo Alto Networks", "Adobe"}) =>
    /\ \A i \in 1..Len(scraped_data.rows) : \E k \in 1..Len(result.rows) :
         KeepsExtractorSeverity(scraped_data.rows[i], result.rows[k])
    /\ (result_df # NoneTable /\ HasCol(result_df, "severity_level")) =>
         \A i \in 1..Len(result_df.rows) : \E k \in 1..Len(result.rows) :
           KeepsExtractorSeverity(result_df.rows[i], result.rows[k])

\* A Palo Alto scan stored a row the extractor rated Critical, the charts
\* were drawn and a query returned rows.
C16_Witness ==
  /\ pc = "shown"
  /\ ui_message = "success"
  /\ selected_oem = "Palo Alto Networks"
  /\ \E k \in 1..Len(result.rows) : result.rows[k]["Severity Level"] = "Critical"
  /\ \E i \in 1..Len(scraped_data.rows) : scraped_data.rows[i]["severity_level"] = "critical"
  /\ result_df # NoneTable
  /\ HasCol(result_df, "severity_level")
  /\ Len(result_df.rows) > 0


\* C17: every record an extractor returns carries the vendor of that
\* extractor in its OEM Name field, and so does every row of the table
\* stored from it, under the normalised name oem_name.
C17_RecordsCarryVendor ==
  /\ (RunEnded /\ outcome = "returned") =>
       \A k \in 1..Len(result.rows) :
         HasCol(result, "OEM Name") /\ result.rows[k]["OEM Name"] = selected_oem
  /\ (pc \in {"render", "shown"} /\ ui_message = "success") =>
       \A k \in 1..Len(scraped_data.rows) :
         HasCol(scraped_data, "oem_name") /\ scraped_data.rows[k]["oem_name"] = selected_oem


\* C18: for a Cisco, Intel or Dell row whose first CVE identifier the
\* enrichment client answered with a severity, the stored severity_level
\* is that severity (checked on runs of one row, where the last
\* enrichment result is the row's).
C18_EnrichmentSeverityPreferred ==
  (pc = "render" /\ ui_message = "success" /\ selected_oem \in {"Cisco", "Intel", "Dell"}
     /\ Len(data) = 1 /\ nvd.triple.severity # NA) =>
    \A k \in 1..Len(scraped_data.rows) :
      scraped_data.rows[k]["severity_level"] = Lower(nvd.triple.severity)


\* The level of the ladder for a score in tenths.
Ladder(x) ==
  IF x >= 90 THEN "Critical"
  ELSE IF 70 <= x /\ x < 90 THEN "High"
  ELSE IF 40 <= x /\ x < 70 THEN "Medium"
  ELSE "Low"

\* C19 as stated: a CVSS cell equal to 'I' gives Informational; otherwise
\* a cell that reads as a number gives the level of the ladder; a cell
\* that is neither gives 'N/A'.
C19_CvssCellLevelUpperI ==
  pc = "cvss_done" =>
    LET s == page[1].cvss
        x == PyFloat(s)
    IN data[1]["Severity Level"] =
         IF s = Chars("I") THEN "Informational"
         ELSE IF x.kind = "number" THEN Ladder(x.tenths)
         ELSE NA

\* C19 with the cell compared whatever its case and with float() as the
\* reader: a cell equal to 'I' or 'i' gives Informational; otherwise a
\* cell float() reads as a number gives the level of the ladder, and the
\* not-a-number value float() reads from 'nan' gives Low; a cell float()
\* rejects gives 'N/A'.
C19_CvssCellLevel ==
  pc = "cvss_done" =>
    LET s == page[1].cvss
        x == PyFloat(s)
        level == data[1]["Severity Level"]
    IN /\ s \in {Chars("I"), Chars("i")} => level = "Informational"
       /\ (s \notin {Chars("I"), Chars("i")} /\ x.kind = "number") => level = Ladder(x.tenths)
       /\ x.kind = "nan" => level = "Low"
       /\ (s \notin {Chars("I"), Chars("i")} /\ x.kind = "ValueError") => level = NA

\* The row of a cell reading 'i' was classified.
C19_Witness ==
  /\ pc = "cvss_done"
  /\ page[1].cvss = Chars("i")
  /\ data[1]["Severity Level"] = "Informational"


C21_AtMostRowCapRows ==
  RunEnded => Len(result.rows) <= RowCap

\* C22: after the user triggers Logout the session state is cleared:
\* is_authenticated() returns False, and the Dashboard is not accessible
\* again until a new successful login.
C22_LogoutClearsSession ==
  logged_out => ~is_authenticated

\* The answer holds exactly the rows of the table whose column col reads id.
AnswersWith(col, id) ==
  /\ result_df.cols = scraped_data.cols
  /\ \A i \in 1..Len(result_df.rows) : result_df.rows[i][col] = id
  /\ Len(result_df.rows)
       = Cardinality({ i \in 1..Len(scraped_data.rows) : scraped_data.rows[i][col] = id })

\* C23: the documented identifier questions are answered by their
\* identifier rule: 'Details for <url>' returns exactly the Cisco rows
\* whose url is the one asked for, 'Details for CVE-2025-0128' exactly the
\* Palo Alto rows whose unique_id holds that identifier, and 'Affected
\* versions for PAN-SA-2025-0008' the affected_versions value of the Palo
\* Alto row with that unique_id.
C23_IdentifierQuestionsAnswered ==
  pc = "answered" =>
    /\ (selected_oem = "Cisco" /\ query = Chars("Details for https://cisco/sa-1"))
         => AnswersWith("url", "https://cisco/sa-1")
    /\ (selected_oem = "Palo Alto Networks" /\ query = Chars("Details for CVE-2025-0128"))
         => AnswersWith("unique_id", "CVE-2025-0128")
    /\ (/\ selected_oem = "Palo Alto Networks"
        /\ query = Chars("Affected versions for PAN-SA-2025-0008")
        /\ \E i \in 1..Len(scraped_data.rows) :
             scraped_data.rows[i]["unique_id"] = "PAN-SA-2025-0008")
         => /\ Len(result_df.rows) = 1
            /\ "Affected Versions" \in DOMAIN result_df.rows[1]
            /\ result_df.rows[1]["Affected Versions"] = "< 132.83"

\* C24: in the dashboard, after a NVIDIA scan that stored a non-empty
\* table, the question 'Show latest 5 advisories' is answered with up to
\* 5 rows of that table, never with the missing-columns response.
C24_NvidiaLatestAnswered ==
  (/\ pc = "shown"
   /\ selected_oem = "NVIDIA"
   /\ query = Chars("Show latest 5 advisories")
   /\ scraped_data # NoneTable
   /\ ~IsEmpty(scraped_data))
    => /\ result_df # NoneTable
       /\ result_df # ResponseFrame(MissingColumns)
       /\ Len(result_df.rows) = Min(5, Len(scraped_data.rows))
       /\ \A i \in 1..Len(result_df.rows) :
            \E k \in 1..Len(scraped_data.rows) :
              result_df.rows[i]["url"] = scraped_data.rows[k]["url"]

\* C25: when an extractor run is aborted by a failure after some rows
\* have been harvested, the table the extractor's except clause returns
\* is empty, never one holding the rows harvested so far.
C25_AbortReturnsEmpty ==
  [][(pc = "handler" /\ pc' = "finally" /\ Len(data) > 0 /\ pending' = NoExc)
       => IsEmpty(result')]_vars

\* C26: the Palo Alto 'Load More' expansion makes at most 5 clicks per
\* run; every attempt either clicks once (and the loop goes on after the
\* settle delay) or, the control being absent, not displayed or the click
\* failing, ends the loop, and the run proceeds to Harvest; no click is
\* made outside the loop.
C26_LoadMoreBounded ==
  /\ [](load_attempt <= 5)
  /\ [][pc = "load_more" =>
          \/ (pc' = "load_more" /\ load_attempt' = load_attempt + 1)
          \/ (pc' = "harvest" /\ load_attempt' = load_attempt)]_vars
  /\ [][(pc # "load_more" /\ load_attempt' # load_attempt) => (pc = "idle" /\ load_attempt' = 0)]_vars

\* A run that made all 5 clicks and went on to Harvest.
C26_Witness ==
  /\ selected_oem = "Palo Alto Networks"
  /\ pc = "harvest"
  /\ load_attempt = 5

\* The rows of the stored table at the positions whose column col reads
\* one of vals.
Positions(col, vals) ==
  { i \in 1..Len(scraped_data.rows) : scraped_data.rows[i][col] \in vals }

\* The answer is a table of the stored table's rows at the positions idxs
\* (the date cell may be held as a timestamp).
Picks(idxs) ==
  /\ result_df.cols = scraped_data.cols
  /\ Len(result_df.rows) = Cardinality(idxs)
  /\ \A i \in 1..Len(result_df.rows) : \E k \in idxs :
       LET r == scraped_data.rows[k]
           col == LatestCol(selected_oem)
       IN result_df.rows[i] \in { [r EXCEPT ![col] = x] : x \in {r[col], ToDatetime(r[col])} }

\* C27: query_cisco_bot and query_palo_alto_bot try their rules in the
\* order latest-N, severity, 'for X' product match, identifier match,
\* date-after-year; the first rule whose precondition matches the
\* question produces the result, and a question no rule matches gets the
\* 'could not understand' message.  Stated question by question: each
\* question that two rules match is answered by the earlier one.
C27_RulesInFixedOrder ==
  (pc = "answered" /\ selected_oem \in {"Cisco", "Palo Alto Networks"}) =>
    LET n == Len(scraped_data.rows)
        all == 1..n
        palo == selected_oem = "Palo Alto Networks"
        dated == Positions(LatestCol(selected_oem), {"2025-05-07", "2025-05-08"})
        Level(l, L, U) == Picks(Positions("severity_level", {l, L, U}))
    IN CASE query \in {Chars("latest"), Chars("recent 5 "), Chars("latest critical severity")} ->
              Len(result_df.rows) = Min(5, n) /\ result_df.cols = scraped_data.cols
         [] query \in {Chars("Latest 10"), Chars("latest 105")} ->
              Len(result_df.rows) = Min(10, n) /\ result_df.cols = scraped_data.cols
         [] query = Chars("critical severity") -> Level("critical", "Critical", "CRITICAL")
         [] query \in {Chars("High severity"), Chars("high severity for PAN-OS")} ->
              Level("high", "High", "HIGH")
         [] query = Chars("medium vulnerabilities") -> Level("medium", "Medium", "MEDIUM")
         [] query = Chars("low vulnerabilities") -> Level("low", "Low", "LOW")
         [] query = Chars("Vulnerabilities for PAN-OS") ->
              Picks(IF palo THEN Positions("product_name", {"PAN-OS"}) ELSE {})
         [] query \in {Chars("Details for CVE-2025-0128"), Chars("Details for https://cisco/sa-1"),
                       Chars("Affected versions for PAN-SA-2025-0008")} ->
              Picks({})
         [] query = Chars("CVE-2025-0128 after 2024") ->
              Picks(IF palo THEN Positions("unique_id", {"CVE-2025-0128"}) ELSE dated)
         [] query = Chars("advisories after 2024") -> Picks(dated)
         [] OTHER -> result_df = ResponseFrame(NotUnderstood)

\* A question the identifier rule and the date rule both match, answered
\* by the identifier rule on a table where the two answers differ.
C27_Witness ==
  /\ pc = "answered"
  /\ selected_oem = "Palo Alto Networks"
  /\ query = Chars("CVE-2025-0128 after 2024")
  /\ Len(result_df.rows) = 1
  /\ Positions("published_date", {"2025-05-07", "2025-05-08"}) # {}
  /\ Positions("published_date", {"2025-05-07", "2025-05-08"})
       # Positions("unique_id", {"CVE-2025-0128"})

\* C28: in scrape_nvidia, whatever stale-element failures occur during
\* the harvest attempts, each row of the page's advisory table appears at
\* most once in the returned table: no bulletin has more records than
\* the page has rows for it.
C28_NvidiaRowsOnce ==
  (RunEnded /\ selected_oem = "NVIDIA" /\ outcome = "returned") =>
    \A node \in Range(page) :
      Cardinality({ k \in 1..Len(result.rows) : result.rows[k]["Bulletin ID"] = node.bid })
        <= Cardinality({ i \in 1..Len(page) : page[i].bid = node.bid })


\* C29: when a scan ran with every severity option selected in the filter
\* (the default selection of the multiselect) and stored its table, the
\* stored table has exactly as many rows as the extractor returned.
C29_DefaultFilterDropsNoRow ==
  (pc = "render" /\ ui_message = "success" /\ severity_filter = severity_options) =>
    Len(scraped_data.rows) = Len(result.rows)


\* The CVSS cells that read as a score from 0.0 to 10.0 in steps of 0.1.
ScoreCells ==
  { c \in CvssCells : /\ Len(c) \in {3, 4}
                      /\ c[Len(c) - 1] = "."
                      /\ PyFloat(c).kind = "number"
                      /\ PyFloat(c).tenths \in 0..100 }

\* C30: for every score from 0.0 to 10.0 in steps of 0.1, the level
\* scrape_palo_alto gives the row of a CVSS cell with that score is the
\* level the normaliser's CVSS mapping gives the same score.
C30_SameCvssMapping ==
  (pc = "cvss_done" /\ page[1].cvss \in ScoreCells) =>
    data[1]["Severity Level"] = CvssToSeverity(PyFloat(page[1].cvss).tenths)


====
